---- MODULE Spec2Model ----
(***************************************************************************)
(* Chat transcript parsing and conversation-metrics engine of              *)
(* SorryIMissedThis (backend/app/services/chat_parser.py, backend/app/     *)
(* models/__init__.py and the places that surface relationship health).    *)
(*                                                                         *)
(* Text is modelled as a sequence of tokens.  A token is a literal         *)
(* substring of the real text: a single character the regular expressions  *)
(* of the parser look at ("[", "]", ":", " ", "-", "~", "LRM" for U+200E,  *)
(* "RLM" for U+200F, "NNBSP" for U+202F, "NL" for a newline), a            *)
(* date-time text, a word, or a fixed phrase of a system message.  The     *)
(* concatenation of the tokens of a line is the line.                      *)
(*                                                                         *)
(* Optional values (Python None) are sequences of length 0 or 1.           *)
(***************************************************************************)
EXTENDS Integers, Sequences, FiniteSets, TLC

VARIABLES
    file_lines,         \* parse_chat_file: the lines of file_content consumed so far
    user_display_name,  \* the caller-supplied display name of the user
    now,                \* the last reading of datetime.now() (None before the first)
    current_message,    \* parse_chat_file: the open message (None or a Message)
    messages,           \* parse_chat_file: the list of Messages built so far
    pc,                 \* position in the pipeline
    conversations,      \* the Conversations returned by the builder
    returned_metrics,   \* the ConversationMetrics a direct _calculate_metrics call returned
    days_in,            \* health classifier input: metrics.days_since_contact
    health,             \* health status reported by each surface
    runs,               \* number of builder calls made on the parsed messages
    outcome,            \* how the last call of a caller-facing operation ended
    store,              \* the items of the Cosmos DB conversations container
    all_messages,       \* process_chat: the message records fetched for the chat
    listener            \* iMessageService: is_listening, message_callbacks, listener threads

vars == <<file_lines, user_display_name, now, current_message,
          messages, pc, conversations, returned_metrics, days_in, health,
          runs, outcome, store, all_messages, listener>>

----------------------------------------------------------------------------
(* Bounds of the model *)

MaxLines == 3
MaxMsgs == 3
MaxDays == 62
MaxRuns == 2
MaxInterleaveLines == 2

----------------------------------------------------------------------------
(* Optional values *)

None == <<>>
Some(x) == <<x>>
IsNone(o) == Len(o) = 0
Val(o) == o[1]

----------------------------------------------------------------------------
(* Token strings *)

\* characters str.strip() and the regex class \s treat as whitespace
Space == {" ", "NNBSP"}

LeadIn(s, S) ==
    CHOOSE k \in 0..Len(s) :
        /\ \A i \in 1..k : s[i] \in S
        /\ (k = Len(s) \/ s[k + 1] \notin S)

TrailIn(s, S) ==
    CHOOSE k \in 0..Len(s) :
        /\ \A i \in (Len(s) - k + 1)..Len(s) : s[i] \in S
        /\ (k = Len(s) \/ s[Len(s) - k] \notin S)

\* str.lstrip(chars)
LStrip(s, S) == SubSeq(s, LeadIn(s, S) + 1, Len(s))

\* str.rstrip(chars)
RStrip(s, S) == SubSeq(s, 1, Len(s) - TrailIn(s, S))

\* str.strip()
Strip(s) == RStrip(LStrip(s, Space), Space)

\* index of the first occurrence of token t in s, 0 when absent
FirstIndex(s, t) ==
    IF \E i \in 1..Len(s) : s[i] = t
    THEN CHOOSE i \in 1..Len(s) : s[i] = t /\ \A j \in 1..(i - 1) : s[j] # t
    ELSE 0

StartsWith(s, t) == Len(s) >= 1 /\ s[1] = t
EndsWith(s, t) == Len(s) >= 1 /\ s[Len(s)] = t
Contains(s, t) == \E i \in 1..Len(s) : s[i] = t

----------------------------------------------------------------------------
(* Timestamp Normalizer: ChatParser.DATE_FORMATS, ChatParser._parse_timestamp *)

\* The date-time texts of the model, each with the fields datetime.strptime
\* reads from it: the two numbers of the date in the order written (a/b),
\* the year and the number of digits it is written with, hour, minute, the
\* seconds when written, the AM/PM marker when written, and whether
\* whitespace separates the time from the marker.
DateShape ==
    [t \in {"1/2/24, 9:00:00 AM", "1/2/24, 9:05:00 AM", "1/2/24, 9:06:00 AM",
            "1/3/2024, 9:05 PM", "13/2/24, 19:00:00", "1/2/24, 19:00",
            "1/2/24, 19:00:05", "2/14/24, 19:00:05"} |->
        CASE t = "1/2/24, 9:00:00 AM" ->
                [a |-> 1, b |-> 2, y |-> 24, ylen |-> 2, h |-> 9, mi |-> 0,
                 s |-> Some(0), ap |-> Some("AM"), sp |-> TRUE]
          [] t = "1/2/24, 9:05:00 AM" ->
                [a |-> 1, b |-> 2, y |-> 24, ylen |-> 2, h |-> 9, mi |-> 5,
                 s |-> Some(0), ap |-> Some("AM"), sp |-> TRUE]
          [] t = "1/2/24, 9:06:00 AM" ->
                [a |-> 1, b |-> 2, y |-> 24, ylen |-> 2, h |-> 9, mi |-> 6,
                 s |-> Some(0), ap |-> Some("AM"), sp |-> TRUE]
          [] t = "1/3/2024, 9:05 PM" ->
                [a |-> 1, b |-> 3, y |-> 2024, ylen |-> 4, h |-> 9, mi |-> 5,
                 s |-> None, ap |-> Some("PM"), sp |-> TRUE]
          [] t = "13/2/24, 19:00:00" ->
                [a |-> 13, b |-> 2, y |-> 24, ylen |-> 2, h |-> 19, mi |-> 0,
                 s |-> Some(0), ap |-> None, sp |-> FALSE]
          [] t = "1/2/24, 19:00" ->
                [a |-> 1, b |-> 2, y |-> 24, ylen |-> 2, h |-> 19, mi |-> 0,
                 s |-> None, ap |-> None, sp |-> FALSE]
          [] t = "1/2/24, 19:00:05" ->
                [a |-> 1, b |-> 2, y |-> 24, ylen |-> 2, h |-> 19, mi |-> 0,
                 s |-> Some(5), ap |-> None, sp |-> FALSE]
          [] t = "2/14/24, 19:00:05" ->
                [a |-> 2, b |-> 14, y |-> 24, ylen |-> 2, h |-> 19, mi |-> 0,
                 s |-> Some(5), ap |-> None, sp |-> FALSE]]

IsDateText(t) == t \in DOMAIN DateShape

\* DATE_FORMATS, in order.  dayFirst: %d/%m instead of %m/%d; y4: %Y instead
\* of %y; sec: has :%S; h12: %I ... %p instead of %H; sp: a space before %p.
DATE_FORMATS ==
    << [dayFirst |-> FALSE, y4 |-> FALSE, sec |-> TRUE,  h12 |-> TRUE,  sp |-> TRUE],
       [dayFirst |-> FALSE, y4 |-> FALSE, sec |-> TRUE,  h12 |-> TRUE,  sp |-> FALSE],
       [dayFirst |-> FALSE, y4 |-> FALSE, sec |-> FALSE, h12 |-> TRUE,  sp |-> TRUE],
       [dayFirst |-> FALSE, y4 |-> FALSE, sec |-> FALSE, h12 |-> TRUE,  sp |-> FALSE],
       [dayFirst |-> FALSE, y4 |-> TRUE,  sec |-> TRUE,  h12 |-> TRUE,  sp |-> TRUE],
       [dayFirst |-> FALSE, y4 |-> TRUE,  sec |-> TRUE,  h12 |-> TRUE,  sp |-> FALSE],
       [dayFirst |-> FALSE, y4 |-> TRUE,  sec |-> FALSE, h12 |-> TRUE,  sp |-> TRUE],
       [dayFirst |-> FALSE, y4 |-> TRUE,  sec |-> FALSE, h12 |-> TRUE,  sp |-> FALSE],
       [dayFirst |-> TRUE,  y4 |-> FALSE, sec |-> TRUE,  h12 |-> FALSE, sp |-> FALSE],
       [dayFirst |-> TRUE,  y4 |-> TRUE,  sec |-> TRUE,  h12 |-> FALSE, sp |-> FALSE],
       [dayFirst |-> FALSE, y4 |-> FALSE, sec |-> FALSE, h12 |-> FALSE, sp |-> FALSE],
       [dayFirst |-> FALSE, y4 |-> TRUE,  sec |-> FALSE, h12 |-> FALSE, sp |-> FALSE] >>

IsLeap(y) == (y % 4 = 0 /\ y % 100 # 0) \/ y % 400 = 0

DaysInMonth(y, m) ==
    IF m = 2 THEN (IF IsLeap(y) THEN 29 ELSE 28)
    ELSE IF m \in {4, 6, 9, 11} THEN 30 ELSE 31

\* days from 2000-01-01 to the civil date y-m-d
DaysFromCivil(y, m, d) ==
    LET yy == IF m <= 2 THEN y - 1 ELSE y
        era == yy \div 400
        yoe == yy - era * 400
        mp == (m + 9) % 12
        doy == (153 * mp + 2) \div 5 + d - 1
        doe == yoe * 365 + yoe \div 4 - yoe \div 100 + doy
    IN era * 146097 + doe - 730425

\* a datetime as an instant: seconds from 2000-01-01 00:00:00 (naive)
Instant(y, m, d, h, mi, s) ==
    DaysFromCivil(y, m, d) * 86400 + h * 3600 + mi * 60 + s

\* datetime.strptime(timestamp_str, date_format): Some(instant), or None for
\* ValueError
Strptime(t, f) ==
    IF ~IsDateText(t) THEN None
    ELSE
    LET sh == DateShape[t]
        month == IF f.dayFirst THEN sh.b ELSE sh.a
        day == IF f.dayFirst THEN sh.a ELSE sh.b
        year == IF f.y4 THEN sh.y
                ELSE IF sh.y >= 69 THEN 1900 + sh.y ELSE 2000 + sh.y
        hour == IF f.h12
                THEN (IF Val(sh.ap) = "PM" THEN (sh.h % 12) + 12 ELSE sh.h % 12)
                ELSE sh.h
        sec == IF f.sec THEN Val(sh.s) ELSE 0
        textOk ==
            /\ sh.ylen = (IF f.y4 THEN 4 ELSE 2)
            /\ f.sec = ~IsNone(sh.s)
            /\ f.h12 = ~IsNone(sh.ap)
            /\ (f.h12 => f.sp = sh.sp)
        valueOk ==
            /\ month \in 1..12
            /\ day \in 1..DaysInMonth(year, month)
            /\ (IF f.h12 THEN sh.h \in 1..12 ELSE sh.h \in 0..23)
            /\ sh.mi \in 0..59
    IN IF textOk /\ valueOk
       THEN Some(Instant(year, month, day, hour, sh.mi, sec))
       ELSE None

RECURSIVE TryFormats(_, _)
TryFormats(t, i) ==
    IF i > Len(DATE_FORMATS) THEN None
    ELSE IF ~IsNone(Strptime(t, DATE_FORMATS[i])) THEN Strptime(t, DATE_FORMATS[i])
    ELSE TryFormats(t, i + 1)

\* mutant: a text no format parses gets a default instant
ParseTimestampOrDefault(timestamp_str) ==
    IF Len(timestamp_str) = 1 /\ ~IsNone(TryFormats(timestamp_str[1], 1))
    THEN TryFormats(timestamp_str[1], 1)
    ELSE Some(0)

_parse_timestamp(timestamp_str) ==
    IF Len(timestamp_str) = 1 THEN TryFormats(timestamp_str[1], 1) ELSE None

----------------------------------------------------------------------------
(* Line Classifier: SYSTEM_MESSAGE_PATTERNS, _is_system_message,           *)
(* _clean_content, WHATSAPP_PATTERN, ALTERNATIVE_PATTERNS,                 *)
(* _match_message_line                                                     *)

\* tokens the regex class [\w\s] accepts (words and whitespace)
IsWordOrSpace(t) ==
    t \notin {"[", "]", ":", "-", "~", ".", "@", "LRM", "RLM", "NL",
              "<This message was edited>"}

\* ^LRM.*added\s+@?[\w\s]+$
MatchesAdded(c) ==
    /\ StartsWith(c, "LRM")
    /\ \E i \in 2..Len(c) :
          /\ c[i] = "added"
          /\ i + 2 <= Len(c)
          /\ c[i + 1] \in Space
          /\ LET from == IF c[i + 2] = "@" THEN i + 3 ELSE i + 2
             IN /\ from <= Len(c)
                /\ \A j \in from..Len(c) : IsWordOrSpace(c[j])

\* ^LRM.*removed\s+.*
MatchesRemoved(c) ==
    /\ StartsWith(c, "LRM")
    /\ \E i \in 2..Len(c) :
          c[i] = "removed" /\ i + 1 <= Len(c) /\ c[i + 1] \in Space

\* re.match(pattern, content, re.IGNORECASE) for any pattern of
\* SYSTEM_MESSAGE_PATTERNS, in the order of the list
_is_system_message(content) ==
    \/ (StartsWith(content, "LRM") /\ Len(content) >= 4
          /\ SubSeq(content, Len(content) - 2, Len(content)) = <<"added", " ", "you">>)
    \/ MatchesAdded(content)
    \/ (StartsWith(content, "LRM") /\ EndsWith(content, "created this group"))
    \/ Contains(content, "changed the group name to")
    \/ Contains(content, "changed the subject to")
    \/ EndsWith(content, "changed the group description")
    \/ EndsWith(content, "changed this group's icon")
    \/ (StartsWith(content, "LRM") /\ Len(content) >= 2 /\ EndsWith(content, "left"))
    \/ MatchesRemoved(content)
    \/ EndsWith(content, "joined using this group's invite link")
    \/ StartsWith(content, "Messages and calls are end-to-end encrypted")
    \/ StartsWith(content, "This chat is with a business account")
    \/ content \in {<<"LRM", "image omitted">>, <<"LRM", "video omitted">>,
                    <<"LRM", "audio omitted">>, <<"LRM", "document omitted">>,
                    <<"LRM", "sticker omitted">>, <<"LRM", "GIF omitted">>,
                    <<"LRM", "Contact card omitted">>}
    \/ (Len(content) >= 2 /\ content[1] = "LRM"
          /\ content[2] \in {"Location:", "POLL:", "OPTION:"})

\* re.sub(r'\s*LRM?<This message was edited>$', '', content)
StripEdited(content) ==
    IF EndsWith(content, "<This message was edited>")
    THEN LET a == SubSeq(content, 1, Len(content) - 1)
             b == IF EndsWith(a, "LRM") THEN SubSeq(a, 1, Len(a) - 1) ELSE a
         IN RStrip(b, Space)
    ELSE content

_clean_content(content) ==
    Strip(LStrip(StripEdited(content), {"LRM", "RLM", " "}))

\* ([^:]+):\s+(.+) after a separator that takes at least minSpaces
\* whitespace characters (greedy, giving one back when the sender would
\* otherwise be empty): Some(<<sender, content>>) or None
SenderAndContent(rest, minSpaces) ==
    LET k == LeadIn(rest, Space)
        c == FirstIndex(rest, ":")
        from == IF c > k + 1 THEN k + 1 ELSE k
        after == SubSeq(rest, c + 1, Len(rest))
        k2 == LeadIn(after, Space)
    IN IF /\ c > 0
          /\ from >= 1
          /\ from - 1 >= minSpaces
          /\ k2 >= 1
          /\ k2 < Len(after)
       THEN Some(<<SubSeq(rest, from, c - 1), SubSeq(after, k2 + 1, Len(after))>>)
       ELSE None

\* re.match(WHATSAPP_PATTERN, line): \[([^\]]+)\]\s+([^:]+):\s+(.+)
MatchWhatsapp(line) ==
    LET rb == FirstIndex(line, "]")
        sc == SenderAndContent(SubSeq(line, rb + 1, Len(line)), 1)
    IN IF StartsWith(line, "[") /\ rb > 2 /\ ~IsNone(sc)
       THEN Some(<<SubSeq(line, 2, rb - 1), Val(sc)[1], Val(sc)[2]>>)
       ELSE None

\* re.match(p, line) for the dash-separated patterns of ALTERNATIVE_PATTERNS:
\* (<date>, <time>[ AM|PM])\s*[-â]\s*([^:]+):\s+(.+)
MatchDash(line) ==
    LET rest == SubSeq(line, 2, Len(line))
        k == LeadIn(rest, Space)
        sc == SenderAndContent(SubSeq(rest, k + 2, Len(rest)), 0)
    IN IF /\ Len(line) >= 1
          /\ IsDateText(line[1])
          /\ k + 1 <= Len(rest)
          /\ rest[k + 1] \in {"-", "â"}
          /\ ~IsNone(sc)
       THEN Some(<<SubSeq(line, 1, 1), Val(sc)[1], Val(sc)[2]>>)
       ELSE None

\* Some(<<timestamp_str, sender, content>>) or None.  The bracketed pattern
\* of ALTERNATIVE_PATTERNS matches only lines WHATSAPP_PATTERN matches, with
\* the same groups, and the primary pattern is tried first.
_match_message_line(line) ==
    IF ~IsNone(MatchWhatsapp(line)) THEN MatchWhatsapp(line) ELSE MatchDash(line)

----------------------------------------------------------------------------
(* Metrics Calculator: ChatParser._calculate_metrics,                      *)
(* ChatParser._calculate_avg_response_time                                 *)

\* Fractions stand for Python floats: [num, den] with den > 0.
Frac(n, d) == [num |-> n, den |-> d]
FracLe(x, y) == x.num * y.den <= y.num * x.den
FracEq(x, y) == x.num * y.den = y.num * x.den
FracMin(x, y) == IF FracLe(y, x) THEN y ELSE x

IntMin(a, b) == IF b < a THEN b ELSE a

SecondsPerHour == 3600

\* sorted(messages, key=lambda m: m.timestamp): stable insertion of the
\* messages in list order
RECURSIVE InsertSorted(_, _)
InsertSorted(sorted, m) ==
    IF sorted = <<>> THEN <<m>>
    ELSE IF sorted[Len(sorted)].timestamp <= m.timestamp THEN Append(sorted, m)
    ELSE Append(InsertSorted(SubSeq(sorted, 1, Len(sorted) - 1), m), sorted[Len(sorted)])

RECURSIVE SortedByTimestamp(_)
SortedByTimestamp(msgs) ==
    IF msgs = <<>> THEN <<>>
    ELSE InsertSorted(SortedByTimestamp(SubSeq(msgs, 1, Len(msgs) - 1)), msgs[Len(msgs)])

\* mutant: a gap of exactly 24 hours counts as a response
ReasonableResponseInclusive(seconds) == seconds <= 24 * SecondsPerHour

\* time_diff < 24 for time_diff = seconds / 3600
ReasonableResponse(seconds) == seconds < 24 * SecondsPerHour

\* mutant: every adjacent pair counts, also one by the same sender
RECURSIVE ResponseTimesAnyPair(_, _)
ResponseTimesAnyPair(sorted_messages, i) ==
    IF i < 1 THEN <<>>
    ELSE LET time_diff == sorted_messages[i + 1].timestamp - sorted_messages[i].timestamp
             before == ResponseTimesAnyPair(sorted_messages, i - 1)
         IN IF ReasonableResponse(time_diff) THEN Append(before, time_diff) ELSE before

\* the list response_times (in seconds) after the loop has handled indexes 1..i
RECURSIVE ResponseTimes(_, _)
ResponseTimes(sorted_messages, i) ==
    IF i < 1 THEN <<>>
    ELSE LET prev_msg == sorted_messages[i]
             curr_msg == sorted_messages[i + 1]
             time_diff == curr_msg.timestamp - prev_msg.timestamp
             before == ResponseTimes(sorted_messages, i - 1)
         IN IF prev_msg.sender # curr_msg.sender /\ ReasonableResponse(time_diff)
            THEN Append(before, time_diff)
            ELSE before

RECURSIVE SumSeq(_)
SumSeq(q) == IF q = <<>> THEN 0 ELSE q[1] + SumSeq(Tail(q))

\* mutant: a single response time is not averaged
AvgNeedsTwoResponses(msgs, user) ==
    IF Len(msgs) < 2 THEN None
    ELSE LET response_times == ResponseTimes(SortedByTimestamp(msgs), Len(msgs) - 1)
         IN IF Len(response_times) >= 2
            THEN Some(Frac(SumSeq(response_times), SecondsPerHour * Len(response_times)))
            ELSE None

\* None, or Some(average in hours) as the fraction seconds / (3600 * count)
_calculate_avg_response_time(msgs, user) ==
    IF Len(msgs) < 2 THEN None
    ELSE LET response_times == ResponseTimes(SortedByTimestamp(msgs), Len(msgs) - 1)
         IN IF response_times # <<>>
            THEN Some(Frac(SumSeq(response_times), SecondsPerHour * Len(response_times)))
            ELSE None

\* mutant: counts the messages of everybody but name
RECURSIVE CountOthers(_, _)
CountOthers(msgs, name) ==
    IF msgs = <<>> THEN 0
    ELSE (IF msgs[1].sender # name THEN 1 ELSE 0) + CountOthers(Tail(msgs), name)

RECURSIVE CountSender(_, _)
CountSender(msgs, name) ==
    IF msgs = <<>> THEN 0
    ELSE (IF msgs[1].sender = name THEN 1 ELSE 0) + CountSender(Tail(msgs), name)

\* mutant: divides by total_messages instead of total_messages / 2
ReciprocityNotHalved(total_messages, user_messages, partner_messages) ==
    IF total_messages > 0
    THEN Frac(IntMin(user_messages, partner_messages), total_messages)
    ELSE Frac(0, 1)

\* min(user_messages, partner_messages) / (total_messages / 2), or 0.0
Reciprocity(total_messages, user_messages, partner_messages) ==
    IF total_messages > 0
    THEN Frac(2 * IntMin(user_messages, partner_messages), total_messages)
    ELSE Frac(0, 1)

\* re.findall(r'\b[a-zA-Z]{4,}\b', token.lower()) for the tokens a message
\* content is made of here; every other token of the model (whitespace,
\* punctuation, marks, words of fewer than 4 letters) holds no match
WordShape ==
    [t \in {"Lunch", "lunch", "noon", "place", "this", "week", "park", "room42",
            "they're", "home", "café", "tree", "hello", "second", "third"} |->
        CASE t = "Lunch" -> <<"lunch">>
          [] t = "room42" -> <<>>
          [] t = "they're" -> <<"they">>
          [] t = "café" -> <<>>
          [] OTHER -> <<t>>]

\* the matches of the pattern in a content whose word tokens are separated
\* by whitespace
RECURSIVE FindWords(_)
FindWords(content) ==
    IF content = <<>> THEN <<>>
    ELSE (IF content[1] \in DOMAIN WordShape THEN WordShape[content[1]] ELSE <<>>)
            \o FindWords(Tail(content))

stop_words ==
    {"the", "a", "an", "and", "or", "but", "in", "on", "at", "to", "for",
     "of", "with", "by", "from", "as", "is", "was", "are", "were", "been",
     "be", "have", "has", "had", "do", "does", "did", "will", "would",
     "could", "should", "may", "might", "must", "can", "this", "that",
     "these", "those", "i", "you", "he", "she", "it", "we", "they", "what",
     "which", "who", "when", "where", "why", "how", "all", "each", "every",
     "both", "few", "more", "most", "other", "some", "such", "no", "nor",
     "not", "only", "own", "same", "so", "than", "too", "very", "just"}

\* [w for w in words if w not in stop_words]
RECURSIVE DropStopWords(_)
DropStopWords(words) ==
    IF words = <<>> THEN <<>>
    ELSE (IF words[1] \notin stop_words THEN <<words[1]>> ELSE <<>>)
            \o DropStopWords(Tail(words))

\* all_words after the loop over the messages
RECURSIVE AllWords(_)
AllWords(msgs) ==
    IF msgs = <<>> THEN <<>>
    ELSE DropStopWords(FindWords(msgs[1].content)) \o AllWords(Tail(msgs))

\* the keys of Counter(all_words), in insertion order
RECURSIVE CounterKeys(_)
CounterKeys(words) ==
    IF words = <<>> THEN <<>>
    ELSE LET before == CounterKeys(SubSeq(words, 1, Len(words) - 1))
             w == words[Len(words)]
         IN IF Contains(before, w) THEN before ELSE Append(before, w)

\* Counter(all_words)[w]
CounterValue(words, w) == Cardinality({i \in 1..Len(words) : words[i] = w})

\* mutant: a key is placed before the keys of equal count
RECURSIVE InsertByCountBeforeTies(_, _, _)
InsertByCountBeforeTies(sorted, w, words) ==
    IF sorted = <<>> THEN <<w>>
    ELSE IF CounterValue(words, sorted[Len(sorted)]) > CounterValue(words, w)
    THEN Append(sorted, w)
    ELSE Append(InsertByCountBeforeTies(SubSeq(sorted, 1, Len(sorted) - 1), w, words),
                sorted[Len(sorted)])

\* sorted(items, key=count, reverse=True), one insertion: a key goes after
\* the keys whose count is greater or equal
RECURSIVE InsertByCount(_, _, _)
InsertByCount(sorted, w, words) ==
    IF sorted = <<>> THEN <<w>>
    ELSE IF CounterValue(words, sorted[Len(sorted)]) >= CounterValue(words, w)
    THEN Append(sorted, w)
    ELSE Append(InsertByCount(SubSeq(sorted, 1, Len(sorted) - 1), w, words),
                sorted[Len(sorted)])

RECURSIVE SortedByCount(_, _)
SortedByCount(keys, words) ==
    IF keys = <<>> THEN <<>>
    ELSE InsertByCount(SortedByCount(SubSeq(keys, 1, Len(keys) - 1), words),
                       keys[Len(keys)], words)

\* Counter(all_words).most_common(n): heapq.nlargest, which is
\* sorted(items, key=count, reverse=True)[:n]
most_common(words, n) ==
    LET all == SortedByCount(CounterKeys(words), words)
    IN SubSeq(all, 1, IntMin(n, Len(all)))

top_n == 5

_extract_common_topics(msgs) ==
    LET all_words == AllWords(msgs)
    IN IF all_words # <<>> THEN most_common(all_words, top_n) ELSE <<>>

\* (datetime.now() - last_message_time).days
DaysBetween(n, last_message_time) == (n - last_message_time) \div (24 * SecondsPerHour)

\* the ConversationMetrics _calculate_metrics returns when datetime.now() is n
_calculate_metrics(msgs, user, n) ==
    LET total_messages == Len(msgs)
        user_messages == CountSender(msgs, user)
        partner_messages == total_messages - user_messages
        reciprocity == Reciprocity(total_messages, user_messages, partner_messages)
        sorted_messages == SortedByTimestamp(msgs)
        last_message_time ==
            IF msgs # <<>> THEN Some(sorted_messages[Len(msgs)].timestamp) ELSE None
    IN [total_messages |-> total_messages,
        user_messages |-> user_messages,
        partner_messages |-> partner_messages,
        reciprocity |-> FracMin(reciprocity, Frac(1, 1)),
        avg_response_time |-> _calculate_avg_response_time(msgs, user),
        last_message_time |-> last_message_time,
        days_since_contact |->
            IF msgs # <<>> THEN Some(DaysBetween(n, Val(last_message_time))) ELSE None,
        common_topics |-> _extract_common_topics(msgs)]

----------------------------------------------------------------------------
(* Participant Resolver and Conversation Builder:                          *)
(* ChatParser.create_conversations_from_group, ChatParser.create_conversation *)

\* sender.lstrip('~â¯ ').strip()
CleanSender(sender) == Strip(LStrip(sender, {"~", "â", "¯", " "}))

\* re.match(pattern, sender, re.IGNORECASE) for any of group_name_patterns
IsGroupName(sender) ==
    \/ \E i, j \in 1..Len(sender) :
          i < j /\ sender[i] = "Board" /\ sender[j] \in {"2025"}
    \/ \E i \in 1..Len(sender) :
          sender[i] \in {"Group", "Chat", "Team", "Chatterjee"}

Senders(msgs) == {msgs[i].sender : i \in 1..Len(msgs)}

\* clean_senders after the group-name filter
GroupPartners(msgs, user) ==
    {c \in {CleanSender(sd) : sd \in Senders(msgs) \ {user}} :
        /\ c # <<>>
        /\ c \notin {<<"You">>, <<"you">>}
        /\ ~IsGroupName(c)}

\* mutant: the messages are not filtered
KeepAllMessages(msgs, partner_name, user) == msgs

\* [msg for msg in messages if msg.sender == partner_name or msg.sender == user_display_name]
RECURSIVE FilterPartner(_, _, _)
FilterPartner(msgs, partner_name, user) ==
    IF msgs = <<>> THEN <<>>
    ELSE IF msgs[1].sender = partner_name \/ msgs[1].sender = user
         THEN <<msgs[1]>> \o FilterPartner(Tail(msgs), partner_name, user)
         ELSE FilterPartner(Tail(msgs), partner_name, user)

_categorize_conversation(metrics) == "friends"

\* the user_id the ChatParser is constructed with
ParserUserId == "u1"

\* str.lower() of a token of a partner name, then .replace(' ', '_')
LowerToken(t) ==
    CASE t = "Alice" -> "alice"
      [] t = "Carol" -> "carol"
      [] t = "Dev" -> "dev"
      [] t = "Team" -> "team"
      [] t = "You" -> "you"
      [] t = "Unknown" -> "unknown"
      [] t = " " -> "_"
      [] OTHER -> t

\* f"{self.user_id}_{partner_name.lower().replace(' ', '_')}"
_generate_partner_id(user_id, partner_name) ==
    <<user_id, "_">> \o [i \in 1..Len(partner_name) |-> LowerToken(partner_name[i])]

NewConversation(partner_name, msgs, user, n) ==
    LET metrics == _calculate_metrics(msgs, user, n)
    IN [user_id |-> ParserUserId,
        partner_name |-> partner_name,
        partner_id |-> _generate_partner_id(ParserUserId, partner_name),
        messages |-> msgs,
        metrics |-> metrics,
        category |-> _categorize_conversation(metrics)]

\* mutant: the loop returns after its first partner
GroupLoopFirstOnly(order, msgs, user, n) ==
    IF order = <<>> THEN <<>>
    ELSE LET partner_messages == FilterPartner(msgs, order[1], user)
         IN IF Len(partner_messages) > 0
            THEN <<NewConversation(order[1], partner_messages, user, n)>>
            ELSE <<>>

\* the loop over clean_senders, which iterates the set in the order `order`
RECURSIVE GroupLoop(_, _, _, _)
GroupLoop(order, msgs, user, n) ==
    IF order = <<>> THEN <<>>
    ELSE LET partner_messages == FilterPartner(msgs, order[1], user)
             rest == GroupLoop(Tail(order), msgs, user, n)
         IN IF Len(partner_messages) > 0
            THEN <<NewConversation(order[1], partner_messages, user, n)>> \o rest
            ELSE rest

\* the iteration orders of a set
Orders(S) ==
    {q \in [1..Cardinality(S) -> S] : \A x \in S : \E i \in DOMAIN q : q[i] = x}

\* the partner create_conversation picks when no partner_name is given:
\* Some(name), or None for a group chat
SinglePartner(msgs, user) ==
    LET clean_senders ==
            {c \in {CleanSender(sd) : sd \in Senders(msgs) \ {user}} : c # <<>>}
    IN IF Cardinality(clean_senders) = 0 THEN Some(<<"Unknown">>)
       ELSE IF Cardinality(clean_senders) = 1
            THEN Some(CHOOSE c \in clean_senders : TRUE)
            ELSE None

----------------------------------------------------------------------------
(* Inputs *)

Header(timestamp_str, sender, content) ==
    <<"[", timestamp_str, "]", " ">> \o sender \o <<":", " ">> \o content

\* the lines the transcripts of the segmentation runs are made of
SegmentLines ==
    { Header("1/2/24, 9:00:00 AM", <<"Alice">>, <<"hey">>),
      Header("1/2/24, 9:05:00 AM", <<"Bob">>, <<"yes">>),
      Header("1/2/24, 9:00:00 AM", <<"Fam">>, <<"LRM", "Alice", " ", "created this group">>),
      Header("1/2/24, 9:00:00 AM", <<"Fam">>, <<"LRM", "Alice", " ", "added", " ", "Carol">>),
      Header("1/2/24, 9:00:00 AM", <<"Fam">>,
             <<"LRM", "Messages and calls are end-to-end encrypted", ".">>),
      Header("1/2/24, 9:00:00 AM", <<"Fam">>,
             <<"Alice", " ", "changed the group name to", " ", "Fam">>),
      Header("1/2/24, 9:05:00 AM", <<"Alice">>, <<"LRM", "image omitted">>),
      Header("1/2/24, 9:05:00 AM", <<"Alice">>,
             <<"hi", " ", "LRM", "<This message was edited>">>),
      Header("1/2/24, 9:05:00 AM", <<"Alice">>, <<"LRM", "<This message was edited>">>),
      Header("note", <<"Alice">>, <<"hey">>),
      Header("2/14/24, 19:00:05", <<"Alice">>, <<"hey">>),
      Header("1/2/24, 19:00", <<"Alice">>, <<"hey">>),
      Header("1/2/24, 19:00:05", <<"Alice">>, <<"hey">>),
      <<"note", " ", "-", " ", "Alice", ":", " ", "hey">>,
      <<"1/3/2024, 9:05 PM", " ", "-", " ", "Bob", ":", " ", "ok">>,
      <<"Messages and calls are end-to-end encrypted", ".">>,
      <<"LRM", "Alice", " ", "created this group">>,
      <<"second">>,
      <<" ", "third", " ">>,
      <<" ">> }

\* the lines the transcripts of the conversation-building runs are made of
BuildLines ==
    { Header("1/2/24, 9:00:00 AM", <<"Alice">>, <<"hey">>),
      Header("1/2/24, 9:05:00 AM", <<"Bob">>, <<"yes">>),
      Header("1/2/24, 9:06:00 AM", <<"Bob">>, <<"ok">>),
      Header("1/2/24, 9:06:00 AM", <<"Carol">>, <<"hello">>),
      Header("1/2/24, 9:05:00 AM", <<"~", "NNBSP", "Alice">>, <<"hi">>),
      Header("1/2/24, 9:06:00 AM", <<"Dev", " ", "Team">>, <<"hello">>),
      Header("1/2/24, 9:06:00 AM", <<"You">>, <<"hello">>) }

Users == {<<"Bob">>}

\* partner_name overrides given to create_conversation
PartnerOverrides == {<<"Alice">>}

\* readings of datetime.now(): 2024-01-02 12:00:00 and 2024-03-10 12:00:00
NowChoices == {Instant(2024, 1, 2, 12, 0, 0), Instant(2024, 3, 10, 12, 0, 0)}

NoHealth == [models |-> "", services |-> "", to_dict |-> "",
             upload_status |-> "", recommendations |-> ""]

\* the service after construction: not listening, no callback, no listener
\* thread; `starting` counts the /listen/start requests between their test
\* of is_listening and their registration; `handed` is the number of
\* callback calls the last poll made for the message it found
NoListener ==
    [is_listening |-> FALSE, message_callbacks |-> 0, starting |-> 0,
     threads |-> <<>>, handed |-> 0]

----------------------------------------------------------------------------
(* parse_chat_file, one loop iteration per step *)

Init ==
    /\ file_lines = <<>>
    /\ user_display_name \in Users
    /\ now = None
    /\ current_message = None
    /\ messages = <<>>
    /\ pc = "parse"
    /\ conversations = <<>>
    /\ returned_metrics = None
    /\ days_in = None
    /\ health = NoHealth
    /\ runs = 0
    /\ outcome = ""
    /\ store = {}
    /\ all_messages = <<>>
    /\ listener = NoListener

\* mutant: the continuation line is joined without the newline
AppendContinuationNoNewline(content, line) == content \o line

\* current_message.content += '\n' + line
AppendContinuation(content, line) == content \o <<"NL">> \o line

\* the open message and the message list after the loop body has run on raw_line
LoopBody(cur, msgs, raw_line) ==
    LET line == Strip(raw_line)
        match == _match_message_line(line)
    IN IF line = <<>> THEN [current_message |-> cur, messages |-> msgs]
       ELSE IF ~IsNone(match)
       THEN LET saved == IF ~IsNone(cur) THEN Append(msgs, Val(cur)) ELSE msgs
                timestamp == _parse_timestamp(Val(match)[1])
                sender == Val(match)[2]
                content == _clean_content(Val(match)[3])
            IN IF _is_system_message(content)
               THEN [current_message |-> None, messages |-> saved]
               ELSE IF content = <<>>
               THEN [current_message |-> None, messages |-> saved]
               ELSE IF ~IsNone(timestamp)
               THEN [current_message |->
                        Some([timestamp |-> Val(timestamp),
                              sender |-> Strip(sender),
                              content |-> content]),
                     messages |-> saved]
               ELSE [current_message |-> None, messages |-> saved]
       ELSE IF ~IsNone(cur)
       THEN [current_message |->
                Some([Val(cur) EXCEPT !.content = AppendContinuation(@, line)]),
             messages |-> msgs]
       ELSE [current_message |-> cur, messages |-> msgs]

\* the loop of parse_chat_file run over the first k lines
RECURSIVE ParseLoop(_, _)
ParseLoop(lines, k) ==
    IF k = 0 THEN [current_message |-> None, messages |-> <<>>]
    ELSE LET before == ParseLoop(lines, k - 1)
         IN LoopBody(before.current_message, before.messages, lines[k])

\* parse_chat_file(file_content, user_display_name) as a whole: the list returned
parse_chat_file(lines) ==
    LET end == ParseLoop(lines, Len(lines))
    IN IF ~IsNone(end.current_message)
       THEN Append(end.messages, Val(end.current_message)) ELSE end.messages

ParseLine(raw_line) ==
    /\ pc = "parse"
    /\ Len(file_lines) < MaxLines
    /\ file_lines' = Append(file_lines, raw_line)
    /\ current_message' = LoopBody(current_message, messages, raw_line).current_message
    /\ messages' = LoopBody(current_message, messages, raw_line).messages
    /\ UNCHANGED <<user_display_name, now, pc, conversations, returned_metrics,
                   days_in, health, runs, outcome, store,
                   all_messages, listener>>

\* end of input: the last open message is appended and the list returned
ParseReturn ==
    /\ pc = "parse"
    /\ messages' = IF ~IsNone(current_message)
                   THEN Append(messages, Val(current_message)) ELSE messages
    /\ current_message' = None
    /\ pc' = "parsed"
    /\ UNCHANGED <<file_lines, user_display_name, now, conversations,
                   returned_metrics, days_in, health, runs, outcome, store,
                   all_messages, listener>>

NextParse ==
    \/ \E raw_line \in SegmentLines : ParseLine(raw_line)
    \/ ParseReturn

SpecParse == Init /\ [][NextParse]_vars

----------------------------------------------------------------------------
(* Conversation Builder calls on the parsed messages *)

\* create_conversations_from_group(messages, user_display_name), callable
\* again on the same messages
CreateConversationsFromGroup ==
    /\ pc \in {"parsed", "group"}
    /\ \E n \in NowChoices :
       \E order \in Orders(GroupPartners(messages, user_display_name)) :
          /\ now' = Some(n)
          /\ conversations' = GroupLoop(order, messages, user_display_name, n)
    /\ pc' = "group"
    /\ runs < MaxRuns
    /\ runs' = runs + 1
    /\ UNCHANGED <<file_lines, user_display_name, current_message, messages,
                   returned_metrics, days_in, health, outcome, store,
                   all_messages, listener>>

\* create_conversation(messages, user_display_name)
CreateConversation ==
    /\ pc \in {"parsed", "single", "single_none"}
    /\ LET partner == SinglePartner(messages, user_display_name)
       IN IF IsNone(partner)
          THEN conversations' = <<>> /\ pc' = "single_none" /\ now' = now
          ELSE \E n \in NowChoices :
                 /\ now' = Some(n)
                 /\ conversations' =
                       <<NewConversation(Val(partner), messages, user_display_name, n)>>
                 /\ pc' = "single"
    /\ runs < MaxRuns
    /\ runs' = runs + 1
    /\ UNCHANGED <<file_lines, user_display_name, current_message, messages,
                   returned_metrics, days_in, health, outcome, store,
                   all_messages, listener>>

\* create_conversation(messages, user_display_name, partner_name)
CreateConversationNamed(partner_name) ==
    /\ pc \in {"parsed", "named"}
    /\ \E n \in NowChoices :
          /\ now' = Some(n)
          /\ conversations' =
                <<NewConversation(partner_name, messages, user_display_name, n)>>
    /\ pc' = "named"
    /\ runs < MaxRuns
    /\ runs' = runs + 1
    /\ UNCHANGED <<file_lines, user_display_name, current_message, messages,
                   returned_metrics, days_in, health, outcome, store,
                   all_messages, listener>>

NextBuild ==
    \/ \E raw_line \in BuildLines : ParseLine(raw_line)
    \/ ParseReturn
    \/ CreateConversationsFromGroup
    \/ CreateConversation
    \/ \E partner_name \in PartnerOverrides : CreateConversationNamed(partner_name)

SpecBuild == Init /\ [][NextBuild]_vars

----------------------------------------------------------------------------
(* Direct calls of _calculate_metrics on message sequences *)

\* message timestamps: 2024-01-01 09:00 and 2, 26 and 32 hours later
MetricTimes ==
    {Instant(2024, 1, 1, 9, 0, 0), Instant(2024, 1, 1, 11, 0, 0),
     Instant(2024, 1, 2, 11, 0, 0), Instant(2024, 1, 2, 17, 0, 0)}

MetricSenders == {<<"Bob">>, <<"Alice">>, <<"Carol">>}

MetricMessages ==
    [timestamp : MetricTimes, sender : MetricSenders, content : {<<"hey">>}]

SeqsUpTo(S, n) == UNION {[1..k -> S] : k \in 0..n}

InitMetrics ==
    /\ file_lines = <<>>
    /\ user_display_name \in Users
    /\ now = None
    /\ current_message = None
    /\ messages \in SeqsUpTo(MetricMessages, MaxMsgs)
    /\ pc = "metrics_call"
    /\ conversations = <<>>
    /\ returned_metrics = None
    /\ days_in = None
    /\ health = NoHealth
    /\ runs = 0
    /\ outcome = ""
    /\ store = {}
    /\ all_messages = <<>>
    /\ listener = NoListener

CalculateMetrics ==
    /\ pc = "metrics_call"
    /\ \E n \in NowChoices :
          /\ now' = Some(n)
          /\ returned_metrics' = Some(_calculate_metrics(messages, user_display_name, n))
    /\ pc' = "metrics_done"
    /\ UNCHANGED <<file_lines, user_display_name, current_message, messages,
                   conversations, days_in, health, runs, outcome, store,
                   all_messages, listener>>

NextMetrics == CalculateMetrics

\* message contents for the topic extraction
TopicContents ==
    { <<"Lunch", " ", "at", " ", "noon">>,
      <<"lunch", " ", "place", " ", "this", " ", "week">>,
      <<"park", " ", "noon", " ", "room42">>,
      <<"they're", " ", "home", " ", "café", "NL", "week", " ", "week">>,
      <<"place", " ", "tree", " ", "home", " ", "park">> }

TopicMessages ==
    [timestamp : {Instant(2024, 1, 1, 9, 0, 0)}, sender : {<<"Alice">>},
     content : TopicContents]

InitTopics ==
    /\ file_lines = <<>>
    /\ user_display_name \in Users
    /\ now = None
    /\ current_message = None
    /\ messages \in SeqsUpTo(TopicMessages, MaxMsgs)
    /\ pc = "metrics_call"
    /\ conversations = <<>>
    /\ returned_metrics = None
    /\ days_in = None
    /\ health = NoHealth
    /\ runs = 0
    /\ outcome = ""
    /\ store = {}
    /\ all_messages = <<>>
    /\ listener = NoListener

SpecTopics == InitTopics /\ [][NextMetrics]_vars

SpecMetrics == InitMetrics /\ [][NextMetrics]_vars

----------------------------------------------------------------------------
(* Relationship Health Classifier and the places that report a status *)

\* mutant: the thresholds compared with >= instead of >
get_relationship_health_inclusive(days_since_contact) ==
    IF IsNone(days_since_contact) THEN "healthy"
    ELSE IF Val(days_since_contact) >= 60 THEN "wilted"
    ELSE IF Val(days_since_contact) >= 30 THEN "dormant"
    ELSE IF Val(days_since_contact) >= 14 THEN "attention"
    ELSE "healthy"

\* app.models: Conversation.get_relationship_health
get_relationship_health(days_since_contact) ==
    IF IsNone(days_since_contact) THEN "healthy"
    ELSE IF Val(days_since_contact) > 60 THEN "wilted"
    ELSE IF Val(days_since_contact) > 30 THEN "dormant"
    ELSE IF Val(days_since_contact) > 14 THEN "attention"
    ELSE "healthy"

\* app.services: Conversation.get_relationship_health
services_get_relationship_health(days_since_contact) ==
    IF IsNone(days_since_contact) THEN "unknown"
    ELSE IF Val(days_since_contact) > 30 THEN "at_risk"
    ELSE IF Val(days_since_contact) > 14 THEN "dormant"
    ELSE IF Val(days_since_contact) > 7 THEN "attention"
    ELSE "healthy"

\* app.models: the 'status' field Conversation.to_dict writes
to_dict_status(days_since_contact) == get_relationship_health(days_since_contact)

\* routes/upload.py get_upload_status: the 'health' of a summary entry, for a
\* conversation that storage returned as a dict or as a Conversation object
upload_status_health(days_since_contact, is_dict) ==
    IF is_dict THEN "healthy" ELSE get_relationship_health(days_since_contact)

\* routes/recommendations.py _relationship_health: a stored dict carries no
\* 'relationship_health' key, so the default is returned
recommendations_health(days_since_contact, is_dict) ==
    IF ~is_dict THEN get_relationship_health(days_since_contact) ELSE "unknown"

InitHealth ==
    /\ file_lines = <<>>
    /\ user_display_name \in Users
    /\ now = None
    /\ current_message = None
    /\ messages = <<>>
    /\ pc = "health"
    /\ conversations = <<>>
    /\ returned_metrics = None
    /\ days_in \in {None} \cup {Some(d) : d \in -1..MaxDays}
    /\ health = NoHealth
    /\ runs = 0
    /\ outcome = ""
    /\ store = {}
    /\ all_messages = <<>>
    /\ listener = NoListener

HealthUnchanged ==
    UNCHANGED <<file_lines, user_display_name, now, current_message, messages, pc,
                conversations, returned_metrics, days_in, runs, outcome, store,
                   all_messages, listener>>

ModelsHealth ==
    /\ pc = "health"
    /\ health' = [health EXCEPT !.models = get_relationship_health(days_in)]
    /\ HealthUnchanged

ServicesHealth ==
    /\ pc = "health"
    /\ health' = [health EXCEPT !.services = services_get_relationship_health(days_in)]
    /\ HealthUnchanged

ToDictStatus ==
    /\ pc = "health"
    /\ health' = [health EXCEPT !.to_dict = to_dict_status(days_in)]
    /\ HealthUnchanged

GetUploadStatus ==
    /\ pc = "health"
    /\ \E is_dict \in BOOLEAN :
          health' = [health EXCEPT !.upload_status = upload_status_health(days_in, is_dict)]
    /\ HealthUnchanged

RecommendationsHealth ==
    /\ pc = "health"
    /\ \E is_dict \in BOOLEAN :
          health' = [health EXCEPT
                        !.recommendations = recommendations_health(days_in, is_dict)]
    /\ HealthUnchanged

NextHealth ==
    \/ ModelsHealth
    \/ ServicesHealth
    \/ ToDictStatus
    \/ GetUploadStatus
    \/ RecommendationsHealth

SpecHealth == InitHealth /\ [][NextHealth]_vars

----------------------------------------------------------------------------
(* Persistence: Conversation.to_dict, AzureStorageService.create_conversation *)
(* on a configured database, and the two routes that save conversations      *)

\* mutant: the dict carries the Conversation's messages
ToDictWithMessages(conv) ==
    [id |-> conv.partner_id,
     userId |-> conv.user_id,
     partnerName |-> conv.partner_name,
     chatId |-> None,
     messages |-> conv.messages,
     messageCount |-> Len(conv.messages),
     metrics |-> conv.metrics,
     createdAt |-> 0,
     updatedAt |-> 0]

\* the fields of Conversation.to_dict() that storage and the claims read; a
\* Conversation that was never saved has no conversation_id, so 'id' is its
\* partner_id, and the dict has no 'chatId' key
to_dict(conv) ==
    [id |-> conv.partner_id,
     userId |-> conv.user_id,
     partnerName |-> conv.partner_name,
     chatId |-> None,
     messages |-> <<>>,
     messageCount |-> Len(conv.messages),
     metrics |-> conv.metrics,
     createdAt |-> 0,
     updatedAt |-> 0]

\* find_conversation_by_chat_id: the items of the user's partition with this chatId
find_conversation_by_chat_id(items, chat_id, user_id) ==
    {it \in items : it.userId = user_id /\ it.chatId = Some(chat_id)}

\* create_conversation(conversation_data) when datetime.utcnow() reads
\* utcnow: the container afterwards and the value returned (None after an
\* exception).  create_item raises CosmosResourceExistsError when the
\* partition holds an item with the id of the body.
storage_create_conversation(items, conversation_data, utcnow) ==
    LET user_id == conversation_data.userId
        stamped == [conversation_data EXCEPT !.createdAt = utcnow, !.updatedAt = utcnow]
        found == IF IsNone(stamped.chatId) THEN {}
                 ELSE find_conversation_by_chat_id(items, Val(stamped.chatId), user_id)
    IN IF user_id = "" THEN [items |-> items, result |-> None]
       ELSE IF found # {}
       THEN LET existing == CHOOSE it \in found : TRUE
                body == [stamped EXCEPT !.id = existing.id,
                                        !.createdAt = existing.createdAt]
            IN [items |-> {it \in items : ~(it.userId = user_id /\ it.id = existing.id)}
                             \cup {body},
                result |-> Some(body.id)]
       ELSE IF \E it \in items : it.userId = user_id /\ it.id = stamped.id
       THEN [items |-> items, result |-> None]
       ELSE [items |-> items \cup {stamped}, result |-> Some(stamped.id)]

\* readings of datetime.utcnow()
StoreTimes == {1, 2}

\* upload_transcript for one text file, after parse_chat_file has returned
UploadTranscript ==
    /\ pc = "parsed"
    /\ pc' = "uploaded"
    /\ IF messages = <<>>
       THEN /\ conversations' = <<>>
            /\ outcome' = "400 No valid conversations found"
            /\ UNCHANGED <<now, store>>
       ELSE LET partner == SinglePartner(messages, user_display_name)
            IN IF IsNone(partner)
               THEN \* conversation is None: conversation.partner_name raises
                    /\ conversations' = <<>>
                    /\ outcome' = "500 Error processing file"
                    /\ UNCHANGED <<now, store>>
               ELSE \E n \in NowChoices : \E utcnow \in StoreTimes :
                      LET conversation ==
                              NewConversation(Val(partner), messages, user_display_name, n)
                          saved == storage_create_conversation(store, to_dict(conversation),
                                                               utcnow)
                      IN /\ now' = Some(n)
                         /\ conversations' = <<conversation>>
                         /\ store' = saved.items
                         /\ outcome' = "200"
    /\ UNCHANGED <<file_lines, user_display_name, current_message, messages,
                   returned_metrics, days_in, health, runs,
                   all_messages, listener>>

NextUpload ==
    \/ \E raw_line \in BuildLines : ParseLine(raw_line)
    \/ ParseReturn
    \/ UploadTranscript

SpecUpload == Init /\ [][NextUpload]_vars

----------------------------------------------------------------------------
(* iMessage ingestion: iMessageService.sync_conversations.process_chat *)

\* the 'date' of a message record: an ISO 8601 string ending in 'Z', one
\* without zone, epoch milliseconds, or no date
DateValues ==
    { [kind |-> "iso_z", at |-> Instant(2024, 1, 1, 11, 0, 0)],
      [kind |-> "iso", at |-> Instant(2024, 1, 1, 9, 0, 0)],
      [kind |-> "iso", at |-> Instant(2024, 1, 1, 11, 0, 0)],
      [kind |-> "epoch_ms", at |-> Instant(2024, 1, 1, 9, 0, 0)],
      [kind |-> "absent", at |-> 0] }

\* the 'attachments' of a message record, each attachment by its mimeType
AttachmentLists ==
    { <<>>, <<"image/png">>, <<"image/png", "image/jpeg">>, <<"image/png", "video/mp4">> }

\* records with a text and no attachment, under every form of date
DatedRecords ==
    [date : DateValues, isFromMe : BOOLEAN, sender : {<<"Alice">>}, text : {<<"hey">>},
     attachments : {<<>>}]

\* records without text
AttachmentRecords ==
    [date : {[kind |-> "iso", at |-> Instant(2024, 1, 1, 9, 0, 0)]}, isFromMe : {FALSE},
     sender : {<<"Alice">>}, text : {<<>>}, attachments : AttachmentLists]

iMessageRecords == DatedRecords \cup AttachmentRecords

\* the type process_chat files an attachment's mimeType under
attachment_type(mime_type) ==
    CASE mime_type \in {"image/png", "image/jpeg"} -> "image"
      [] mime_type \in {"video/mp4"} -> "video"
      [] mime_type \in {"audio/mpeg"} -> "audio"
      [] OTHER -> "file"

\* str.capitalize() of an attachment type
Capitalize(type_name) ==
    CASE type_name = "image" -> "Image"
      [] type_name = "video" -> "Video"
      [] type_name = "audio" -> "Audio"
      [] OTHER -> "File"

\* message_text: msg.get('text') or '', or the placeholder synthesized for a
\* record with attachments and no text
MessageText(msg) ==
    LET attachments == msg.attachments
        unique_types == {attachment_type(attachments[i]) : i \in 1..Len(attachments)}
        count == Len(attachments)
    IN IF msg.text # <<>> \/ attachments = <<>> THEN msg.text
       ELSE IF Cardinality(unique_types) = 1
       THEN <<"[", ToString(count), " ", Capitalize(CHOOSE t \in unique_types : TRUE)>>
               \o (IF count > 1 THEN <<"s">> ELSE <<>>) \o <<"]">>
       ELSE <<"[", ToString(count), " ", "attachments", "]">>

\* msg_time: the instant and whether the datetime carries a tzinfo
\* (fromisoformat of '...+00:00', fromtimestamp(tz=utc) and now(utc) do,
\* fromisoformat of a string without zone does not)
msg_time(date, utc_now) ==
    CASE date.kind = "iso_z" -> [timestamp |-> date.at, aware |-> TRUE]
      [] date.kind = "iso" -> [timestamp |-> date.at, aware |-> FALSE]
      [] date.kind = "epoch_ms" -> [timestamp |-> date.at, aware |-> TRUE]
      [] OTHER -> [timestamp |-> utc_now, aware |-> TRUE]

\* the Message appended to all_message_objects for one record
MessageObject(msg, utc_now) ==
    [timestamp |-> msg_time(msg.date, utc_now).timestamp,
     aware |-> msg_time(msg.date, utc_now).aware,
     sender |-> IF msg.isFromMe THEN <<"user">> ELSE msg.sender,
     content |-> MessageText(msg)]

\* the Messages of the text parser hold naive datetimes
IsAware(msg) == "aware" \in DOMAIN msg /\ msg.aware

\* sorted(messages, key=lambda m: m.timestamp) raises TypeError when it has
\* to compare a naive with an aware datetime
SortRaises(msgs) == \E i, j \in 1..Len(msgs) : IsAware(msgs[i]) # IsAware(msgs[j])

\* datetime.now() - last_message_time raises TypeError when
\* last_message_time is aware
SubtractRaises(msgs) == IsAware(SortedByTimestamp(msgs)[Len(msgs)])

\* _calculate_metrics ends with a TypeError instead of returning
_calculate_metrics_raises(msgs) ==
    msgs # <<>> /\ (SortRaises(msgs) \/ SubtractRaises(msgs))

SyncChatId == "chat1"

InitSync ==
    /\ file_lines = <<>>
    /\ user_display_name \in Users
    /\ now = None
    /\ current_message = None
    /\ messages = <<>>
    /\ pc = "sync"
    /\ conversations = <<>>
    /\ returned_metrics = None
    /\ days_in = None
    /\ health = NoHealth
    /\ runs = 0
    /\ outcome = ""
    /\ store = {}
    /\ all_messages \in SeqsUpTo(iMessageRecords, MaxMsgs)
    /\ listener = NoListener

\* process_chat for one chat, with the collection of its result by
\* asyncio.gather(..., return_exceptions=True)
ProcessChat ==
    /\ pc = "sync"
    /\ pc' = "sync_done"
    /\ IF all_messages = <<>>
       THEN /\ outcome' = "skipped"
            /\ UNCHANGED <<now, messages, returned_metrics, conversations>>
       ELSE \E n \in NowChoices : \E utc_now \in NowChoices :
              LET all_message_objects ==
                      [i \in 1..Len(all_messages) |-> MessageObject(all_messages[i], utc_now)]
                  metrics == _calculate_metrics(all_message_objects, <<ParserUserId>>, n)
                  conversation == [user_id |-> ParserUserId,
                                   partner_name |-> <<"Alice">>,
                                   partner_id |-> <<ParserUserId, "_", SyncChatId>>,
                                   messages |-> <<>>,
                                   metrics |-> metrics]
              IN /\ messages' = all_message_objects
                 /\ IF _calculate_metrics_raises(all_message_objects)
                    THEN /\ outcome' = "TypeError"
                         /\ UNCHANGED <<now, returned_metrics, conversations>>
                    ELSE /\ outcome' = "synced"
                         /\ now' = Some(n)
                         /\ returned_metrics' = Some(metrics)
                         /\ conversations' =
                               <<[to_dict(conversation) EXCEPT
                                     !.chatId = Some(SyncChatId),
                                     !.messageCount = Len(all_message_objects)]>>
    /\ UNCHANGED <<file_lines, user_display_name, current_message, days_in, health,
                   runs, store, all_messages, listener>>

NextSync == ProcessChat

SpecSync == InitSync /\ [][NextSync]_vars

----------------------------------------------------------------------------
(* A synced chat that then receives new messages: the save loop of the     *)
(* sync route, imessage_webhook, add_message_to_conversation               *)

\* the save of the conv_dict process_chat returned, by the sync route
SaveSyncResult ==
    /\ pc = "sync_done"
    /\ outcome = "synced"
    /\ pc' = "stored"
    /\ \E utcnow \in StoreTimes :
          LET saved == storage_create_conversation(store, conversations[1], utcnow)
          IN /\ store' = saved.items
             /\ outcome' = IF IsNone(saved.result) THEN "save failed" ELSE "saved"
    /\ UNCHANGED <<file_lines, user_display_name, now, current_message, messages,
                   conversations, returned_metrics, days_in, health, runs, all_messages,
                   listener>>

\* the 'date' of the message of a new-message event, in epoch milliseconds:
\* 2024-01-01 08:00:00 and 2024-03-09 09:00:00
WebhookDates ==
    { [kind |-> "epoch_ms", at |-> Instant(2024, 1, 1, 8, 0, 0)],
      [kind |-> "epoch_ms", at |-> Instant(2024, 3, 9, 9, 0, 0)] }

WebhookMessages ==
    [date : WebhookDates, isFromMe : BOOLEAN, sender : {<<"Alice">>}, text : {<<"hey">>},
     attachments : {<<>>}]

\* msg_timestamp: datetime.fromtimestamp(timestamp / 1000), a naive datetime
webhook_timestamp(date) == date.at

\* message_dict of imessage_webhook
message_dict(msg) ==
    [timestamp |-> webhook_timestamp(msg.date),
     sender |-> IF msg.isFromMe THEN <<ParserUserId>> ELSE msg.sender,
     content |-> msg.text]

\* add_message_to_conversation when datetime.utcnow() reads utcnow: the
\* container afterwards and the value returned
add_message_to_conversation(items, conversation_id, user_id, message_data, utcnow) ==
    LET found == {it \in items : it.userId = user_id /\ it.id = conversation_id}
    IN IF found = {} THEN [items |-> items, result |-> FALSE]
       ELSE LET conversation == CHOOSE it \in found : TRUE
                updated == [conversation EXCEPT
                               !.messageCount = @ + 1,
                               !.updatedAt = utcnow,
                               !.metrics.last_message_time = Some(message_data.timestamp)]
            IN [items |-> (items \ {conversation}) \cup {updated}, result |-> TRUE]

\* imessage_webhook for a new-message event of the synced chat; the chat
\* now holds the message
WebhookNewMessage(msg) ==
    /\ pc \in {"stored", "storage"}
    /\ runs < MaxRuns
    /\ runs' = runs + 1
    /\ all_messages' = Append(all_messages, msg)
    /\ LET found == find_conversation_by_chat_id(store, SyncChatId, ParserUserId)
       IN IF found = {}
          THEN /\ outcome' = "Conversation not found"
               /\ UNCHANGED store
          ELSE \E utcnow \in StoreTimes :
                 LET conversation_id == (CHOOSE it \in found : TRUE).id
                     added == add_message_to_conversation(store, conversation_id,
                                                          ParserUserId, message_dict(msg),
                                                          utcnow)
                 IN /\ store' = added.items
                    /\ outcome' = "Message metadata updated"
    /\ UNCHANGED <<file_lines, user_display_name, now, current_message, messages, pc,
                   conversations, returned_metrics, days_in, health, listener>>

NextWebhook ==
    \/ ProcessChat
    \/ SaveSyncResult
    \/ \E msg \in WebhookMessages : WebhookNewMessage(msg)

\* the chat that is synced holds text messages
InitWebhook ==
    /\ InitSync
    /\ \A i \in 1..Len(all_messages) : all_messages[i] \in DatedRecords

SpecWebhook == InitWebhook /\ [][NextWebhook]_vars

----------------------------------------------------------------------------
(* Any sequence of saves by the two routes and of new-message events *)

\* conversations submitted to storage, one at a time, by the two routes
StoreUserIds == {"u1", "u2"}
StorePartners == {<<"Alice">>}
StoreChats == {"chat1"}
StoreMetrics ==
    {[total_messages |-> k, last_message_time |-> Some(Instant(2024, 1, 1, 9, 0, 0))] :
        k \in {3, 4}}

\* a Message of an uploaded transcript
StoreMessage ==
    [timestamp |-> Instant(2024, 1, 1, 9, 0, 0), sender |-> <<"Alice">>, content |-> <<"hey">>]

\* the new-message event delivered for the chat
StoreWebhookMessage ==
    [date |-> [kind |-> "epoch_ms", at |-> Instant(2024, 3, 9, 9, 0, 0)], isFromMe |-> FALSE,
     sender |-> <<"Alice">>, text |-> <<"hey">>, attachments |-> <<>>]

InitStore ==
    /\ file_lines = <<>>
    /\ user_display_name \in Users
    /\ now = None
    /\ current_message = None
    /\ messages = <<>>
    /\ pc = "storage"
    /\ conversations = <<>>
    /\ returned_metrics = None
    /\ days_in = None
    /\ health = NoHealth
    /\ runs = 0
    /\ outcome = ""
    /\ store = {}
    /\ all_messages = <<>>
    /\ listener = NoListener

\* the save of one conversation_data; `conversations` keeps the dict submitted
SaveConversation(conversation_data) ==
    /\ pc = "storage"
    /\ \E utcnow \in StoreTimes :
          LET saved == storage_create_conversation(store, conversation_data, utcnow)
          IN /\ store' = saved.items
             /\ outcome' = IF IsNone(saved.result) THEN "save failed" ELSE "saved"
    /\ conversations' = <<conversation_data>>
    /\ UNCHANGED <<file_lines, user_display_name, now, current_message, messages, pc,
                   returned_metrics, days_in, health, runs,
                   all_messages, listener>>

\* upload_transcript: the save loop, for the Conversation of one partner
SaveUploaded(user_id, partner_name, metrics) ==
    SaveConversation(to_dict([user_id |-> user_id,
                              partner_name |-> partner_name,
                              partner_id |-> _generate_partner_id(user_id, partner_name),
                              messages |-> [i \in 1..metrics.total_messages |-> StoreMessage],
                              metrics |-> metrics]))

\* sync_conversations.process_chat and the save loop of the iMessage sync
\* route: the dict of one chat, with its 'chatId' key
SaveSynced(user_id, chat_id, metrics) ==
    SaveConversation([to_dict([user_id |-> user_id,
                               partner_name |-> <<"Alice">>,
                               partner_id |-> <<user_id, "_", chat_id>>,
                               messages |-> <<>>,
                               metrics |-> metrics])
                         EXCEPT !.chatId = Some(chat_id),
                                !.messageCount = metrics.total_messages])

NextStore ==
    \/ \E user_id \in StoreUserIds : \E partner_name \in StorePartners :
       \E metrics \in StoreMetrics : SaveUploaded(user_id, partner_name, metrics)
    \/ \E user_id \in StoreUserIds : \E chat_id \in StoreChats :
       \E metrics \in StoreMetrics : SaveSynced(user_id, chat_id, metrics)
    \/ WebhookNewMessage(StoreWebhookMessage)

SpecStore == InitStore /\ [][NextStore]_vars

----------------------------------------------------------------------------
(* Two invocations of the core running concurrently, each on its own       *)
(* transcript: here every variable of an invocation holds one value per    *)
(* invocation                                                              *)

Invocations == {1, 2}

\* the lines the two transcripts are made of
InterleaveLines ==
    { Header("1/2/24, 9:00:00 AM", <<"Alice">>, <<"hey">>),
      Header("1/2/24, 9:06:00 AM", <<"Carol">>, <<"hello">>),
      <<"second">> }

InitInterleave ==
    /\ file_lines = <<<<>>, <<>>>>
    /\ user_display_name \in Users
    /\ now = <<None, None>>
    /\ current_message = <<None, None>>
    /\ messages = <<<<>>, <<>>>>
    /\ pc = <<"parse", "parse">>
    /\ conversations = <<<<>>, <<>>>>
    /\ returned_metrics = None
    /\ days_in = None
    /\ health = NoHealth
    /\ runs = 0
    /\ outcome = ""
    /\ store = {}
    /\ all_messages = <<>>
    /\ listener = NoListener

\* mutant: current_message is one attribute shared by the invocations
CurrentMessageOfParser(p) == 1

\* current_message and messages are locals of parse_chat_file: invocation p
\* reads and writes its own
CurrentMessageOf(p) == p

\* one iteration of the loop of parse_chat_file in invocation p
ParseLineOf(p, raw_line) ==
    /\ pc[p] = "parse"
    /\ Len(file_lines[p]) < MaxInterleaveLines
    /\ file_lines' = [file_lines EXCEPT ![p] = Append(@, raw_line)]
    /\ LET after == LoopBody(current_message[CurrentMessageOf(p)], messages[p], raw_line)
       IN /\ current_message' =
                [current_message EXCEPT ![CurrentMessageOf(p)] = after.current_message]
          /\ messages' = [messages EXCEPT ![p] = after.messages]
    /\ UNCHANGED <<user_display_name, now, pc, conversations, returned_metrics,
                   days_in, health, runs, outcome, store, all_messages, listener>>

\* the end of parse_chat_file in invocation p
ParseReturnOf(p) ==
    /\ pc[p] = "parse"
    /\ LET cur == current_message[CurrentMessageOf(p)]
       IN messages' = [messages EXCEPT
                          ![p] = IF ~IsNone(cur) THEN Append(@, Val(cur)) ELSE @]
    /\ current_message' = [current_message EXCEPT ![CurrentMessageOf(p)] = None]
    /\ pc' = [pc EXCEPT ![p] = "parsed"]
    /\ UNCHANGED <<file_lines, user_display_name, now, conversations,
                   returned_metrics, days_in, health, runs, outcome, store,
                   all_messages, listener>>

\* create_conversations_from_group, with its calls of _calculate_metrics,
\* on the messages invocation p parsed
BuildOf(p) ==
    /\ pc[p] = "parsed"
    /\ \E n \in NowChoices :
       \E order \in Orders(GroupPartners(messages[p], user_display_name)) :
          /\ now' = [now EXCEPT ![p] = Some(n)]
          /\ conversations' =
                [conversations EXCEPT
                    ![p] = GroupLoop(order, messages[p], user_display_name, n)]
    /\ pc' = [pc EXCEPT ![p] = "built"]
    /\ UNCHANGED <<file_lines, user_display_name, current_message, messages,
                   returned_metrics, days_in, health, runs, outcome, store,
                   all_messages, listener>>

NextInterleave ==
    \/ \E p \in Invocations : \E raw_line \in InterleaveLines : ParseLineOf(p, raw_line)
    \/ \E p \in Invocations : ParseReturnOf(p)
    \/ \E p \in Invocations : BuildOf(p)

SpecInterleave == InitInterleave /\ [][NextInterleave]_vars

----------------------------------------------------------------------------
(* The iMessage listener: the /listen/start and /listen/stop routes,       *)
(* iMessageService.register_message_callback, start_listening,             *)
(* stop_listening                                                          *)

\* the listener threads a run can start: one per /listen/start request
ListenerThreads == 1..MaxRuns

InitListen ==
    /\ file_lines = <<>>
    /\ user_display_name \in Users
    /\ now = None
    /\ current_message = None
    /\ messages = <<>>
    /\ pc = "listen"
    /\ conversations = <<>>
    /\ returned_metrics = None
    /\ days_in = None
    /\ health = NoHealth
    /\ runs = 0
    /\ outcome = ""
    /\ store = {}
    /\ all_messages = <<>>
    /\ listener = NoListener

ListenUnchanged ==
    UNCHANGED <<file_lines, user_display_name, now, current_message, messages, pc,
                conversations, returned_metrics, days_in, health, store, all_messages>>

\* /listen/start, up to its test of service.is_listening
StartRequest ==
    /\ pc = "listen"
    /\ runs < MaxRuns
    /\ runs' = runs + 1
    /\ IF listener.is_listening
       THEN /\ outcome' = "Already listening"
            /\ UNCHANGED listener
       ELSE /\ outcome' = ""
            /\ listener' = [listener EXCEPT !.starting = @ + 1]
    /\ ListenUnchanged

\* /listen/start, the rest: register_message_callback(process_new_message)
\* and the start of a thread that runs service.start_listening()
StartRegister ==
    /\ pc = "listen"
    /\ listener.starting > 0
    /\ listener' = [listener EXCEPT !.starting = @ - 1,
                                    !.message_callbacks = @ + 1,
                                    !.threads = Append(@, "start")]
    /\ outcome' = "Started listening for messages"
    /\ UNCHANGED runs
    /\ ListenUnchanged

\* start_listening in thread t, up to its loop
ThreadStart(t) ==
    /\ pc = "listen"
    /\ t \in DOMAIN listener.threads
    /\ listener.threads[t] = "start"
    /\ IF listener.is_listening
       THEN listener' = [listener EXCEPT !.threads[t] = "returned"]
       ELSE listener' = [listener EXCEPT !.is_listening = TRUE, !.threads[t] = "loop"]
    /\ UNCHANGED <<runs, outcome>>
    /\ ListenUnchanged

\* one pass of `while self.is_listening` in thread t: a poll that may find
\* a message of the last minute, and then calls every registered callback
\* with it, and the start of the sleep
ThreadPoll(t) ==
    /\ pc = "listen"
    /\ t \in DOMAIN listener.threads
    /\ listener.threads[t] = "loop"
    /\ IF listener.is_listening
       THEN \E found \in BOOLEAN :
              listener' = [listener EXCEPT
                              !.handed = IF found THEN listener.message_callbacks ELSE 0,
                              !.threads[t] = "sleep"]
       ELSE listener' = [listener EXCEPT !.threads[t] = "returned"]
    /\ UNCHANGED <<runs, outcome>>
    /\ ListenUnchanged

\* the end of asyncio.sleep(5) in thread t
ThreadWake(t) ==
    /\ pc = "listen"
    /\ t \in DOMAIN listener.threads
    /\ listener.threads[t] = "sleep"
    /\ listener' = [listener EXCEPT !.threads[t] = "loop"]
    /\ UNCHANGED <<runs, outcome>>
    /\ ListenUnchanged

\* /listen/stop: service.stop_listening()
StopRequest ==
    /\ pc = "listen"
    /\ listener.is_listening
    /\ listener' = [listener EXCEPT !.is_listening = FALSE]
    /\ outcome' = "Stopped listening for messages"
    /\ UNCHANGED runs
    /\ ListenUnchanged

NextListen ==
    \/ StartRequest
    \/ StartRegister
    \/ \E t \in ListenerThreads : ThreadStart(t)
    \/ \E t \in ListenerThreads : ThreadPoll(t)
    \/ \E t \in ListenerThreads : ThreadWake(t)
    \/ StopRequest

SpecListen == InitListen /\ [][NextListen]_vars

----------------------------------------------------------------------------
(* Properties of the Metrics Calculator *)

MetricsDone == pc = "metrics_done"
M == Val(returned_metrics)

UserIndexes == {i \in 1..Len(messages) : messages[i].sender = user_display_name}
PartnerIndexes == {i \in 1..Len(messages) : messages[i].sender # user_display_name}

\* C1: the reciprocity _calculate_metrics returns lies in [0, 1]; it is
\* exactly 1 when user_messages = partner_messages > 0 and exactly 0 when
\* total_messages = 0.
Thm_C1_ReciprocityBounds ==
    MetricsDone =>
        /\ M.reciprocity.den > 0
        /\ FracLe(Frac(0, 1), M.reciprocity)
        /\ FracLe(M.reciprocity, Frac(1, 1))
        /\ (M.user_messages = M.partner_messages /\ M.user_messages > 0
               => FracEq(M.reciprocity, Frac(1, 1)))
        /\ (M.total_messages = 0 => FracEq(M.reciprocity, Frac(0, 1)))

\* a balanced, non-empty message set has been measured
Wit_C1_Balanced ==
    /\ MetricsDone
    /\ M.user_messages = M.partner_messages
    /\ M.user_messages > 0
    /\ FracEq(M.reciprocity, Frac(1, 1))

\* C2: user_messages counts the messages whose sender is user_display_name,
\* partner_messages all the others, total_messages is their sum, and for a
\* non-empty list reciprocity = min(1, min(user, partner) / (total / 2)).
Thm_C2_PartitionCounts ==
    MetricsDone =>
        /\ M.user_messages = Cardinality(UserIndexes)
        /\ M.partner_messages = Cardinality(PartnerIndexes)
        /\ M.total_messages = M.user_messages + M.partner_messages
        /\ M.total_messages = Len(messages)
        /\ (M.total_messages > 0 =>
              FracEq(M.reciprocity,
                     FracMin(Frac(1, 1),
                             Frac(2 * IntMin(Cardinality(UserIndexes),
                                             Cardinality(PartnerIndexes)),
                                  Len(messages)))))

\* two messages of the user and one of a partner: reciprocity 2/3
Wit_C2_TwoToOne ==
    /\ MetricsDone
    /\ Cardinality(UserIndexes) = 2
    /\ Cardinality(PartnerIndexes) = 1
    /\ M.user_messages = 2
    /\ M.partner_messages = 1
    /\ FracEq(M.reciprocity, Frac(2, 3))

\* the position of messages[i] in the ascending order by timestamp, equal
\* timestamps in list order
Rank(i) ==
    1 + Cardinality({j \in 1..Len(messages) :
                        \/ messages[j].timestamp < messages[i].timestamp
                        \/ /\ messages[j].timestamp = messages[i].timestamp
                           /\ j < i})

\* the message at position k of the ascending order
Ascending(k) == messages[CHOOSE i \in 1..Len(messages) : Rank(i) = k]

Gap(k) == Ascending(k + 1).timestamp - Ascending(k).timestamp

SenderChanges(k) == Ascending(k + 1).sender # Ascending(k).sender

\* positions k whose pair (k, k + 1) of the ascending order is a response
QualifyingPairs ==
    {k \in 1..(Len(messages) - 1) : SenderChanges(k) /\ Gap(k) < 24 * 3600}

RECURSIVE GapSum(_)
GapSum(S) ==
    IF S = {} THEN 0
    ELSE LET k == CHOOSE x \in S : TRUE IN Gap(k) + GapSum(S \ {k})

\* C10: avg_response_time is the mean, in hours, of the gaps of the adjacent
\* pairs of the ascending order whose senders differ and whose gap is
\* strictly below 24 hours, and absent when there is no such pair: gaps of
\* 24 hours or more and same-sender pairs never contribute.
Thm_C10_AvgResponseTime ==
    MetricsDone =>
        LET qualifying == QualifyingPairs
        IN IF qualifying = {}
           THEN IsNone(M.avg_response_time)
           ELSE /\ ~IsNone(M.avg_response_time)
                /\ FracEq(Val(M.avg_response_time),
                          Frac(GapSum(qualifying), 3600 * Cardinality(qualifying)))

\* a 2-hour response followed by a 30-hour gap between different senders:
\* the average is the 2 hours alone
Wit_C10_ThirtyAndTwoHours ==
    /\ MetricsDone
    /\ Len(messages) = 3
    /\ SenderChanges(1) /\ Gap(1) = 2 * 3600
    /\ SenderChanges(2) /\ Gap(2) = 30 * 3600
    /\ ~IsNone(M.avg_response_time)
    /\ FracEq(Val(M.avg_response_time), Frac(2, 1))

\* C11 as stated: avg_response_time is absent whenever fewer than two
\* qualifying deltas (sender-change pairs under 24 hours) exist, also when
\* there is exactly one.
Claim_C11_AbsentBelowTwoDeltas ==
    (MetricsDone /\ Cardinality(QualifyingPairs) < 2) => IsNone(M.avg_response_time)

\* C11 (amended): avg_response_time is absent exactly when there are fewer
\* than two messages or no qualifying delta; with exactly one qualifying
\* delta it is present and equals that delta in hours.
Thm_C11_AbsentWithoutDelta ==
    MetricsDone =>
        /\ IsNone(M.avg_response_time) <=> (Len(messages) < 2 \/ QualifyingPairs = {})
        /\ \A k \in QualifyingPairs :
              QualifyingPairs = {k} =>
                  /\ ~IsNone(M.avg_response_time)
                  /\ FracEq(Val(M.avg_response_time), Frac(Gap(k), 3600))

\* three messages with one qualifying delta of 2 hours (the other pair is by
\* the same sender): the average is present
Wit_C11_OneDelta ==
    /\ MetricsDone
    /\ Len(messages) = 3
    /\ QualifyingPairs = {1}
    /\ Gap(1) = 2 * 3600
    /\ ~SenderChanges(2)
    /\ M.avg_response_time = Some(Frac(2 * 3600, 3600))

\* the latest timestamp of the measured messages
MaxTimestamp ==
    CHOOSE t \in {messages[i].timestamp : i \in 1..Len(messages)} :
        \A i \in 1..Len(messages) : messages[i].timestamp <= t

\* C14: days_since_contact and last_message_time are absent exactly when
\* there are no messages; otherwise last_message_time is the maximum
\* timestamp and days_since_contact is a non-negative integer, the whole
\* days between now and that timestamp.
Claim_C14_DaysSinceContact ==
    MetricsDone =>
        /\ IsNone(M.days_since_contact) <=> messages = <<>>
        /\ IsNone(M.last_message_time) <=> messages = <<>>
        /\ messages # <<>> =>
              /\ Val(M.last_message_time) = MaxTimestamp
              /\ Val(M.days_since_contact) >= 0
              /\ Val(M.days_since_contact) * 86400 <= Val(now) - MaxTimestamp
              /\ Val(now) - MaxTimestamp < (Val(M.days_since_contact) + 1) * 86400

\* the lowercase run of letters a content token is, "" for a token that is
\* not one run of ASCII letters between word boundaries
LetterRun(t) ==
    CASE t = "Lunch" -> "lunch"
      [] t = "they're" -> "they"
      [] t \in {"room42", "café", " ", "NL"} -> ""
      [] OTHER -> t

\* the places <<message, token>> where the word w stands in the contents
Occurrences(w) ==
    {p \in UNION {{<<i, j>> : j \in 1..Len(messages[i].content)} : i \in 1..Len(messages)} :
        LetterRun(messages[p[1]].content[p[2]]) = w}

Precedes(p, q) == p[1] < q[1] \/ (p[1] = q[1] /\ p[2] < q[2])

FirstOccurrence(w) ==
    CHOOSE p \in Occurrences(w) : \A q \in Occurrences(w) : q = p \/ Precedes(p, q)

\* the words of the contents that qualify as topics
QualifyingWords ==
    {w \in {"lunch", "noon", "place", "this", "week", "park", "they", "home", "tree", "at"} :
        /\ Occurrences(w) # {}
        /\ Len(w) >= 4
        /\ w \notin stop_words}

Topics == M.common_topics

\* C15: the topics are at most 5 distinct qualifying words (lowercase,
\* alphabetic, at least 4 letters, found in a content, no stop word), in
\* descending order of frequency with ties in first-encountered order, and
\* no qualifying word that is left out is more frequent than a returned one.
Thm_C15_CommonTopics ==
    MetricsDone =>
        /\ Len(Topics) <= 5
        /\ Len(Topics) = IntMin(5, Cardinality(QualifyingWords))
        /\ \A i \in 1..Len(Topics) : Topics[i] \in QualifyingWords
        /\ \A i, j \in 1..Len(Topics) :
              i < j =>
                 \/ Cardinality(Occurrences(Topics[i])) > Cardinality(Occurrences(Topics[j]))
                 \/ /\ Cardinality(Occurrences(Topics[i])) = Cardinality(Occurrences(Topics[j]))
                    /\ Precedes(FirstOccurrence(Topics[i]), FirstOccurrence(Topics[j]))
        /\ \A w \in QualifyingWords :
              (\A i \in 1..Len(Topics) : Topics[i] # w) =>
                 \A i \in 1..Len(Topics) :
                    Cardinality(Occurrences(w)) <= Cardinality(Occurrences(Topics[i]))

\* seven qualifying words, two of them twice: the five returned start with
\* the two frequent ones and go on in first-encountered order
Wit_C15_FiveOfSeven ==
    /\ MetricsDone
    /\ Cardinality(QualifyingWords) = 7
    /\ Topics = <<"place", "park", "lunch", "week", "noon">>

----------------------------------------------------------------------------
(* Properties of the Relationship Health Classifier *)

\* the 14/30/60 four-tier classification
CanonicalHealth(d) ==
    IF IsNone(d) THEN "healthy"
    ELSE IF Val(d) <= 14 THEN "healthy"
    ELSE IF Val(d) \in 15..30 THEN "attention"
    ELSE IF Val(d) \in 31..60 THEN "dormant"
    ELSE "wilted"

\* C3: Conversation.get_relationship_health of app.models maps an absent
\* days_since_contact to healthy, d <= 14 to healthy, 15..30 to attention,
\* 31..60 to dormant and d > 60 to wilted.
Thm_C3_HealthThresholds ==
    health.models # "" => health.models = CanonicalHealth(days_in)

\* the classifier has run on each side of every threshold; here 15 days
Wit_C3_FifteenIsAttention ==
    /\ days_in = Some(15)
    /\ health.models = "attention"

\* C4: every place that reports a health status reports the status of the
\* 14/30/60 four-tier classifier.
Claim_C4_HealthConsistent ==
    \A site \in DOMAIN health :
        health[site] # "" => health[site] = CanonicalHealth(days_in)

----------------------------------------------------------------------------
(* Properties of the Message Segmenter *)

Parsed == pc = "parsed"

GroupCreatedHeader ==
    Header("1/2/24, 9:00:00 AM", <<"Fam">>, <<"LRM", "Alice", " ", "created this group">>)
MemberAddedHeader ==
    Header("1/2/24, 9:00:00 AM", <<"Fam">>, <<"LRM", "Alice", " ", "added", " ", "Carol">>)
BannerHeader ==
    Header("1/2/24, 9:00:00 AM", <<"Fam">>,
           <<"LRM", "Messages and calls are end-to-end encrypted", ".">>)
GroupRenamedHeader ==
    Header("1/2/24, 9:00:00 AM", <<"Fam">>,
           <<"Alice", " ", "changed the group name to", " ", "Fam">>)
ImageOmittedHeader ==
    Header("1/2/24, 9:05:00 AM", <<"Alice">>, <<"LRM", "image omitted">>)
BannerLine == <<"Messages and calls are end-to-end encrypted", ".">>
GroupCreatedLine == <<"LRM", "Alice", " ", "created this group">>

\* system-message lines: group created, member added, encryption banner,
\* as header content or as a bare line
SystemLines ==
    {GroupCreatedHeader, MemberAddedHeader, BannerHeader, BannerLine, GroupCreatedLine}

\* C5: a transcript whose lines are all system-message lines yields zero
\* Messages.
Claim_C5_SystemOnlyTranscriptIsEmpty ==
    (Parsed /\ \A i \in 1..Len(file_lines) : file_lines[i] \in SystemLines)
        => messages = <<>>

\* headers whose content is a system/noise text
NoiseHeaders ==
    {GroupCreatedHeader, MemberAddedHeader, BannerHeader, GroupRenamedHeader,
     ImageOmittedHeader}

\* C6: every Message has non-empty content, and a header whose content is a
\* system/noise text opens no Message.
Claim_C6_NoNoiseMessage ==
    /\ \A i \in 1..Len(messages) : messages[i].content # <<>>
    /\ (~IsNone(current_message) => Val(current_message).content # <<>>)
    /\ (pc = "parse" /\ file_lines # <<>> /\ file_lines[Len(file_lines)] \in NoiseHeaders)
          => IsNone(current_message)

\* headers that open a message, with the content of the message they open
OpeningHeaders ==
    { [line |-> Header("1/2/24, 9:00:00 AM", <<"Alice">>, <<"hey">>),
       content |-> <<"hey">>],
      [line |-> Header("1/2/24, 9:05:00 AM", <<"Bob">>, <<"yes">>),
       content |-> <<"yes">>],
      [line |-> Header("1/2/24, 9:05:00 AM", <<"Alice">>,
                       <<"hi", " ", "LRM", "<This message was edited>">>),
       content |-> <<"hi">>],
      [line |-> <<"1/3/2024, 9:05 PM", " ", "-", " ", "Bob", ":", " ", "ok">>,
       content |-> <<"ok">>] }

\* continuation lines, with the text left when the whitespace around them
\* is removed
ContinuationLines ==
    { [line |-> <<"second">>, trimmed |-> <<"second">>],
      [line |-> <<" ", "third", " ">>, trimmed |-> <<"third">>] }

BadTimestampHeaders ==
    { Header("note", <<"Alice">>, <<"hey">>),
      Header("2/14/24, 19:00:05", <<"Alice">>, <<"hey">>) }

ContinuationTexts == {c.line : c \in ContinuationLines}

\* C16: a header whose timestamp cannot be parsed opens no Message; the
\* message open before it is emitted as it stood, continuation lines after
\* it attach to nothing, and a later valid header is parsed normally.
Thm_C16_UnparseableHeaderDropped ==
    /\ \A k \in 1..Len(file_lines) :
          (/\ pc = "parse"
           /\ file_lines[k] \in BadTimestampHeaders
           /\ \A j \in (k + 1)..Len(file_lines) : file_lines[j] \in ContinuationTexts)
          => IsNone(current_message)
    /\ \A b \in BadTimestampHeaders : \A h \in OpeningHeaders : \A c \in ContinuationLines :
          /\ (Parsed /\ file_lines = <<h.line, b, c.line>>) =>
                (Len(messages) = 1 /\ messages[1].content = h.content)
          /\ (Parsed /\ file_lines = <<h.line, c.line, b>>) =>
                (Len(messages) = 1
                   /\ messages[1].content = h.content \o <<"NL">> \o c.trimmed)
          /\ (Parsed /\ file_lines = <<b, c.line, h.line>>) =>
                (Len(messages) = 1 /\ messages[1].content = h.content)
          /\ (Parsed /\ file_lines = <<b, c.line>>) => messages = <<>>

\* a message, then a header with an unparseable timestamp and a line after
\* it: only the first message is returned
Wit_C16_DroppedAfterOpenMessage ==
    /\ Parsed
    /\ file_lines = << Header("1/2/24, 9:00:00 AM", <<"Alice">>, <<"hey">>),
                       Header("2/14/24, 19:00:05", <<"Alice">>, <<"hey">>),
                       <<"second">> >>
    /\ Len(messages) = 1
    /\ messages[1].content = <<"hey">>
    /\ messages[1].timestamp = Instant(2024, 1, 2, 9, 0, 0)

----------------------------------------------------------------------------
(* Properties of the Participant Resolver and the Conversation Builder *)

\* the senders the Participant Resolver keeps as partners, with the partner
\* name it gives them
PartnerSenders ==
    { [sender |-> <<"Alice">>, name |-> <<"Alice">>],
      [sender |-> <<"Carol">>, name |-> <<"Carol">>],
      [sender |-> <<"~", "NNBSP", "Alice">>, name |-> <<"Alice">>] }

SenderSet == {messages[i].sender : i \in 1..Len(messages)}

ConversationOf(name) ==
    {i \in 1..Len(conversations) : conversations[i].partner_name = name}

SentBy(conv, sender) ==
    {i \in 1..Len(conv.messages) : conv.messages[i].sender = sender}

\* C8: for a transcript with exactly three parties - the user and two
\* partners A and B - create_conversations_from_group returns exactly two
\* Conversations, one per partner, and neither holds a message the other
\* partner sent.
Thm_C8_GroupSplitting ==
    \A a, b \in PartnerSenders :
        (/\ pc = "group"
         /\ a.name # b.name
         /\ SenderSet = {user_display_name, a.sender, b.sender})
        => /\ Len(conversations) = 2
           /\ Cardinality(ConversationOf(a.name)) = 1
           /\ Cardinality(ConversationOf(b.name)) = 1
           /\ \A i \in ConversationOf(a.name) : SentBy(conversations[i], b.sender) = {}
           /\ \A i \in ConversationOf(b.name) : SentBy(conversations[i], a.sender) = {}

\* the transcript of Bob (the user), Alice and Carol has been split
Wit_C8_AliceAndCarol ==
    /\ pc = "group"
    /\ SenderSet = {<<"Bob">>, <<"Alice">>, <<"Carol">>}
    /\ Len(conversations) = 2
    /\ \E i \in ConversationOf(<<"Alice">>) :
          /\ SentBy(conversations[i], <<"Alice">>) # {}
          /\ SentBy(conversations[i], <<"Carol">>) = {}

\* C9: in every Conversation the builder returns, every message was sent by
\* the user or by the Conversation's partner_name.
Claim_C9_OnlyUserAndPartner ==
    pc \in {"group", "single", "named"} =>
        \A i \in 1..Len(conversations) :
            \A j \in 1..Len(conversations[i].messages) :
                conversations[i].messages[j].sender
                    \in {user_display_name, conversations[i].partner_name}

\* the round-trip scenario: Alice 9:00:00, Bob 9:05:00, Bob 9:06:00
RoundTripLines ==
    << Header("1/2/24, 9:00:00 AM", <<"Alice">>, <<"hey">>),
       Header("1/2/24, 9:05:00 AM", <<"Bob">>, <<"yes">>),
       Header("1/2/24, 9:06:00 AM", <<"Bob">>, <<"ok">>) >>

\* C12: with user_display_name = Bob, the round-trip scenario yields one
\* Conversation with partner Alice and 3 Messages, total_messages = 3,
\* user_messages = 2, partner_messages = 1, reciprocity = 2/3, and an
\* avg_response_time that is present and equal to the single Alice->Bob
\* delta of 5 minutes.
Thm_C12_RoundTrip ==
    (/\ pc \in {"single", "group"}
     /\ file_lines = RoundTripLines
     /\ user_display_name = <<"Bob">>)
    => /\ Len(messages) = 3
       /\ Len(conversations) = 1
       /\ conversations[1].partner_name = <<"Alice">>
       /\ Len(conversations[1].messages) = 3
       /\ conversations[1].metrics.total_messages = 3
       /\ conversations[1].metrics.user_messages = 2
       /\ conversations[1].metrics.partner_messages = 1
       /\ FracEq(conversations[1].metrics.reciprocity, Frac(2, 3))
       /\ ~IsNone(conversations[1].metrics.avg_response_time)
       /\ FracEq(Val(conversations[1].metrics.avg_response_time), Frac(5 * 60, 3600))

\* create_conversation has built the Conversation of the round-trip scenario
Wit_C12_RoundTripBuilt ==
    /\ pc = "single"
    /\ file_lines = RoundTripLines
    /\ Len(conversations) = 1
    /\ conversations[1].partner_name = <<"Alice">>
    /\ conversations[1].metrics.avg_response_time = Some(Frac(300, 3600))

ConversationSet(convs) == {convs[i] : i \in 1..Len(convs)}

\* a Conversation with the days_since_contact of its metrics left out
WithoutDays(conv) == [conv EXCEPT !.metrics.days_since_contact = None]

\* a step that runs a builder again on messages it has already been run on
BuiltAgain == runs >= 1 /\ runs' = runs + 1

\* C13 as stated: a second run on the same transcript and user_display_name
\* yields the same Messages and the same conversations, in the same order,
\* with identical ConversationMetrics in every field.
Claim_C13_Idempotent ==
    [][BuiltAgain => (messages' = messages /\ conversations' = conversations)]_vars

\* C13 (amended): the Messages are a function of the transcript, and a
\* second run yields the same number of conversations and the same set of
\* conversations with identical ConversationMetrics in every field other
\* than days_since_contact; days_since_contact is identical too when both
\* runs read the same clock value.  The order of the conversations of a
\* group transcript is not fixed.
Thm_C13_IdempotentUpToClockAndOrder ==
    /\ [](pc # "parse" => messages = parse_chat_file(file_lines))
    /\ [][BuiltAgain =>
            /\ messages' = messages
            /\ Len(conversations') = Len(conversations)
            /\ {WithoutDays(c) : c \in ConversationSet(conversations')}
                   = {WithoutDays(c) : c \in ConversationSet(conversations)}
            /\ (now' = now =>
                   ConversationSet(conversations') = ConversationSet(conversations))]_vars

\* a group transcript with two partners has been split twice
Wit_C13_SplitTwice ==
    /\ pc = "group"
    /\ runs = 2
    /\ Len(conversations) = 2
    /\ conversations[1].partner_name # conversations[2].partner_name
    /\ conversations[1].metrics.days_since_contact = Some(68)

\* C17: when the resolved partner set of a transcript with messages is empty
\* the upload yields no Conversation and answers 'No valid conversations
\* found'.
Claim_C17_NoPartnerNoConversation ==
    (/\ pc = "uploaded"
     /\ messages # <<>>
     /\ GroupPartners(messages, user_display_name) = {})
    => /\ conversations = <<>>
       /\ store = {}
       /\ outcome = "400 No valid conversations found"

\* the partner or chat identifier a stored or submitted dict is keyed by
StoreKey(d) ==
    IF IsNone(d.chatId)
    THEN [user |-> d.userId, kind |-> "partner", key |-> d.id]
    ELSE [user |-> d.userId, kind |-> "chat", key |-> d.chatId]

\* C18: the container never holds two records for one (user_id, partner or
\* chat identifier), and every submission succeeds and leaves the record of
\* its key holding the submitted metrics, with the id and createdAt the
\* record had before when there was one.
Claim_C18_Upsert ==
    /\ [](\A a, b \in store : StoreKey(a) = StoreKey(b) => a = b)
    /\ [][\A d \in ConversationSet(conversations') :
            /\ outcome' = "saved"
            /\ \E r \in store' :
                  /\ StoreKey(r) = StoreKey(d)
                  /\ r.metrics = d.metrics
                  /\ \A old \in store :
                        StoreKey(old) = StoreKey(d) =>
                            (r.id = old.id /\ r.createdAt = old.createdAt)]_vars

\* C19: for the message records of a chat, whatever the form of their
\* dates, _calculate_metrics returns a ConversationMetrics and raises
\* nothing.
Claim_C19_MetricsNeverRaise ==
    (pc = "sync_done" /\ all_messages # <<>>)
        => (outcome # "TypeError" /\ ~IsNone(returned_metrics))

\* lines of prose with a colon: a bracketed text that is no date, and a
\* text that is no date before a dash
ProseLines ==
    { Header("note", <<"Alice">>, <<"hey">>),
      <<"note", " ", "-", " ", "Alice", ":", " ", "hey">> }

\* C20: a prose line '[text] word: rest' or 'text - word: rest' whose
\* leading part is no date is not a Header: after an open message it is
\* appended to it as a continuation, and the message is neither closed nor
\* dropped.
Claim_C20_ProseIsContinuation ==
    \A h \in OpeningHeaders : \A p \in ProseLines : \A c \in ContinuationLines :
        /\ (Parsed /\ file_lines = <<h.line, p>>) =>
              (Len(messages) = 1
                 /\ messages[1].content = h.content \o <<"NL">> \o p)
        /\ (Parsed /\ file_lines = <<h.line, p, c.line>>) =>
              (Len(messages) = 1
                 /\ messages[1].content =
                       h.content \o <<"NL">> \o p \o <<"NL">> \o c.trimmed)

\* bare lines (no header) that match a pattern of SYSTEM_MESSAGE_PATTERNS
BareNoiseLines ==
    { <<"Messages and calls are end-to-end encrypted", ".">>,
      <<"LRM", "Alice", " ", "created this group">> }

\* C21: a bare line that matches a system-message pattern and follows an
\* open message is discarded: the message keeps the content it had, and no
\* Message's content holds the line.
Claim_C21_BareNoiseDiscarded ==
    /\ \A n \in BareNoiseLines : _is_system_message(n)
    /\ \A h \in OpeningHeaders : \A n \in BareNoiseLines : \A c \in ContinuationLines :
          /\ (Parsed /\ file_lines = <<h.line, n>>) =>
                (Len(messages) = 1 /\ messages[1].content = h.content)
          /\ (Parsed /\ file_lines = <<h.line, n, c.line>>) =>
                (Len(messages) = 1
                   /\ messages[1].content = h.content \o <<"NL">> \o c.trimmed)

\* C22: an uploaded transcript that resolves to more than one partner is
\* split per partner: the upload answers 200 with exactly one Conversation
\* for each distinct partner.
Claim_C22_GroupUploadSplits ==
    (/\ pc = "uploaded"
     /\ Cardinality(GroupPartners(messages, user_display_name)) > 1)
    => /\ outcome = "200"
       /\ Len(conversations) = Cardinality(GroupPartners(messages, user_display_name))
       /\ \A p \in GroupPartners(messages, user_display_name) :
             Cardinality(ConversationOf(p)) = 1

\* the instant of the latest message the chat has received
LatestReceived ==
    CHOOSE t \in {all_messages[i].date.at : i \in 1..Len(all_messages)} :
        \A i \in 1..Len(all_messages) : all_messages[i].date.at <= t

\* C23: after a sync and any new-message events, the stored conversation's
\* metrics describe all the messages received: total_messages is the
\* messageCount and the number of messages, last_message_time is the latest
\* timestamp, and days_since_contact is the distance of a clock reading
\* from it.
Claim_C23_MetricsFollowMessages ==
    pc = "stored" =>
        \A it \in store :
            /\ it.messageCount = Len(all_messages)
            /\ it.metrics.total_messages = it.messageCount
            /\ it.metrics.last_message_time = Some(LatestReceived)
            /\ \E n \in NowChoices :
                  it.metrics.days_since_contact = Some(DaysBetween(n, LatestReceived))

\* C24: every Message the iMessage normalization builds has non-empty
\* content: the record's text when it has one, otherwise a bracketed
\* placeholder with the attachment count.
Claim_C24_ContentNonEmpty ==
    pc = "sync_done" =>
        \A i \in 1..Len(messages) :
            /\ messages[i].content # <<>>
            /\ all_messages[i].text # <<>> => messages[i].content = all_messages[i].text
            /\ all_messages[i].text = <<>> =>
                  /\ messages[i].content[1] = "["
                  /\ messages[i].content[2] = ToString(Len(all_messages[i].attachments))

\* C25: no record in cloud storage, and no dict submitted to it, holds
\* message content: its 'messages' list is empty whatever uploads, syncs
\* and new-message events have happened; the number of messages is kept
\* as messageCount only.
Thm_C25_NoContentStored ==
    /\ \A it \in store : it.messages = <<>>
    /\ \A i \in 1..Len(conversations) : conversations[i].messages = <<>>

\* u1 has an uploaded conversation of three messages and a synced chat
\* that received a new message afterwards; neither record holds a message
Wit_C25_UploadedSyncedNotified ==
    /\ pc = "storage"
    /\ \E up, sy \in store :
          /\ up.userId = "u1" /\ IsNone(up.chatId)
          /\ up.messageCount = 3 /\ up.messages = <<>>
          /\ sy.userId = "u1" /\ sy.chatId = Some("chat1")
          /\ sy.messageCount = sy.metrics.total_messages + 1 /\ sy.messages = <<>>

\* the Conversations invocation p returns when it runs alone on its
\* transcript, reads the clock as it did and iterates the partners in `order`
AloneResult(p, order) ==
    GroupLoop(order, parse_chat_file(file_lines[p]), user_display_name, Val(now[p]))

\* C26: however two invocations on different transcripts interleave, each
\* returns the messages, and the Conversations with their metrics, that it
\* returns when run alone on its transcript.
Thm_C26_InvocationsIndependent ==
    \A p \in Invocations :
        /\ pc[p] \in {"parsed", "built"} => messages[p] = parse_chat_file(file_lines[p])
        /\ pc[p] = "built" =>
              \E order \in Orders(GroupPartners(parse_chat_file(file_lines[p]),
                                                user_display_name)) :
                  conversations[p] = AloneResult(p, order)

\* both invocations have finished on different transcripts, the first one
\* with a message continued over two lines
Wit_C26_BothBuilt ==
    /\ pc = <<"built", "built">>
    /\ file_lines[1] = << Header("1/2/24, 9:00:00 AM", <<"Alice">>, <<"hey">>), <<"second">> >>
    /\ file_lines[2] = << Header("1/2/24, 9:06:00 AM", <<"Carol">>, <<"hello">>),
                          Header("1/2/24, 9:00:00 AM", <<"Alice">>, <<"hey">>) >>
    /\ Len(conversations[1]) = 1
    /\ conversations[1][1].messages[1].content = <<"hey", "NL", "second">>
    /\ Len(conversations[2]) = 2

\* the transcript messages a partner sent: those whose cleaned sender name
\* is the partner's name
SentByPartner(name) ==
    LET IsFrom(m) == m.sender # user_display_name /\ CleanSender(m.sender) = name
    IN SelectSeq(messages, IsFrom)

\* the messages of a Conversation that the user did not send
NotByUser(conv) ==
    LET IsOther(m) == m.sender # user_display_name
    IN SelectSeq(conv.messages, IsOther)

\* C27: each Conversation create_conversations_from_group returns holds, as
\* partner-sent messages, exactly the transcript messages whose cleaned
\* sender name is its partner_name, so at least one; and every resolved
\* partner gets a Conversation.
Claim_C27_PartnerMessagesByCleanName ==
    pc = "group" =>
        /\ \A i \in 1..Len(conversations) :
              /\ NotByUser(conversations[i]) = SentByPartner(conversations[i].partner_name)
              /\ conversations[i].metrics.partner_messages >= 1
        /\ \A name \in GroupPartners(messages, user_display_name) :
              ConversationOf(name) # {}

IsFromMeCount(flag) ==
    Cardinality({i \in 1..Len(all_messages) : all_messages[i].isFromMe = flag})

\* C28: the metrics the sync computes for a chat count the records with
\* isFromMe = true as user_messages and the others as partner_messages, so
\* a chat with as many of the one as of the other has reciprocity 1.
Claim_C28_OwnMessagesCounted ==
    (pc = "sync_done" /\ outcome = "synced") =>
        /\ Val(returned_metrics).user_messages = IsFromMeCount(TRUE)
        /\ Val(returned_metrics).partner_messages = IsFromMeCount(FALSE)
        /\ IsFromMeCount(TRUE) = IsFromMeCount(FALSE) =>
              Val(returned_metrics).reciprocity = Frac(1, 1)

\* the date 1/2/24 with a 12-hour time, a 24-hour time without seconds and
\* a 24-hour time with seconds
SameDateTexts == {"1/2/24, 9:00:00 AM", "1/2/24, 19:00", "1/2/24, 19:00:05"}

\* the calendar day of an instant, as days from 2000-01-01
DayOf(instant) == instant \div 86400

\* C29: the date is read as month/day/year whatever the encoding of the
\* time: two headers with the date 1/2/24 and different time encodings give
\* two Messages on the same day, 2 January 2024.
Claim_C29_DateIndependentOfTime ==
    \A t1, t2 \in SameDateTexts :
        (/\ Parsed
         /\ file_lines = << Header(t1, <<"Alice">>, <<"hey">>),
                            Header(t2, <<"Alice">>, <<"hey">>) >>)
        => /\ Len(messages) = 2
           /\ DayOf(messages[1].timestamp) = DayOf(messages[2].timestamp)
           /\ DayOf(messages[1].timestamp) = DaysFromCivil(2024, 1, 2)

\* the listener threads that are in their polling loop
PollingLoops ==
    {t \in 1..Len(listener.threads) : listener.threads[t] \in {"loop", "sleep"}}

\* C30: whatever /listen/start and /listen/stop requests have been made,
\* at most one polling loop keeps running, at most one process_new_message
\* callback is registered, and a polled message is handed to the handler at
\* most once per poll.
Claim_C30_OneLoopOneCallback ==
    pc = "listen" =>
        /\ listener.is_listening => Cardinality(PollingLoops) <= 1
        /\ listener.message_callbacks <= 1
        /\ listener.handed <= 1

====
